---- MODULE Spec2Model ----
(***************************************************************************)
(* South Pole Station foundation settlement analysis (src/utils.py).       *)
(*                                                                         *)
(* The engines of utils.py are modelled as operators over tables.  A table *)
(* is a record [dates, v]: dates is the sequence of survey dates (the      *)
(* date-labelled axis of the DataFrame) and v maps each row label (monitor *)
(* point or beam name) to the sequence of its cells, one per date.         *)
(*                                                                         *)
(* A cell is a float.  Floats are modelled by exact rationals <<n, d>> in  *)
(* lowest terms with d > 0, NaN by the empty tuple, +inf and -inf by       *)
(* <<1, 0>> and <<-1, 0>>; binary rounding error is not modelled, decimal  *)
(* rounding (DataFrame.round) is.                                          *)
(***************************************************************************)
EXTENDS Integers, Sequences, FiniteSets, TLC

VARIABLES
    pc,                 \* position in the run: which engine has returned
    raised,             \* "none", or the exception that ended the run
    survey_clean,       \* lug elevations [ft], points x dates
    truss_clean,        \* lug-to-truss heights [ft], points x dates
    shim_clean,         \* shim heights, points x dates
    elevation,          \* calc_settlement: lug elevation, dates x points
    gradeBeamElev,      \* calc_settlement: grade beam elevation
    gradeBeamElevPlot,  \* calc_settlement: grade beam elevation at located points
    settlement,         \* calc_settlement: cumulative settlement [ft]
    settlement_delta,   \* calc_settlement: change between surveys [in]
    settlement_rate,    \* calc_settlement: annualized rate [in/yr]
    beamInfo,           \* read_beamInfo: the rows of SP_BeamArrowLabels.csv
    nsurvey,            \* number of past surveys used for the forecast
    nyears,             \* number of years forecast
    settlementProj,     \* forecast settlement, (last, future dates) x points
    elevProj,           \* forecast lug elevation, (last, future dates) x points
    elevGradeBeamProj,  \* forecast grade beam elevation
    settlementProj_trans, \* forecast settlement, points x future dates
    elevFloorProj,      \* forecast floor elevation, points x (last, future dates)
    floorElevPlot,      \* calc_plan_dataframe: floor elevation at located points
    floorDiff,          \* calc_plan_dataframe: floor differential [in]
    floorSlope,         \* calc_plan_dataframe: floor slope [in/ft]
    gradeBeamDiff,      \* calc_plan_dataframe: grade beam differential [in]
    error_meanFloor,    \* calc_plane_error: floor elevation less the pod mean, inches
    error_fitFloor,     \* calc_plane_error: floor elevation less the fitted plane, inches
    error_stdFloor,     \* calc_plane_error: spread of both errors per pod and date
    slopes_fitFloor,    \* calc_plane_error: slopes of the fitted floor planes, percent
    error_meanGradeBeam,
    error_fitGradeBeam,
    error_stdGradeBeam,
    slopes_fitGradeBeam,
    beamDiff,           \* calc_differental_settlement: lug differential [in]
    beamDiffProj,       \* calc_differental_settlement: projected differential
    beamSlope,          \* calc_differental_settlement: lug slope [in/ft]
    beamSlopeProj,      \* calc_differental_settlement: projected slope
    floorDiffElev,      \* calc_differental_settlement: floor differential
    floorDiffProj,      \* calc_differental_settlement: projected floor differential
    beamDir,            \* plot_beamStyles: arrow angle per beam and date [degrees]
    beamSymbol,         \* plot_beamStyles: marker symbol
    beamDiffColor,      \* plot_beamStyles: tier colour of the lug differential
    beamSlopeColor,     \* plot_beamStyles: tier colour of the lug slope
    beamSlopeProjColor, \* plot_beamStyles: tier colour of the projected slope
    floorDir,           \* plot_floorStyles: arrow angle of the floor differential
    floorSymbol,        \* plot_floorStyles: marker symbol
    floorDiffColor,     \* plot_floorStyles: tier colour of the floor differential
    gradeBeamDiffColor, \* plot_floorStyles: tier colour of the grade beam differential
    floorSlopeColor     \* plot_floorStyles: tier colour of the floor slope

inputVars == <<survey_clean, truss_clean, shim_clean, beamInfo, nsurvey, nyears>>

settleVars == <<elevation, gradeBeamElev, gradeBeamElevPlot, settlement, settlement_delta,
                settlement_rate>>

projVars == <<settlementProj, settlementProj_trans, elevProj, elevFloorProj,
              elevGradeBeamProj>>

planVars == <<floorElevPlot, floorDiff, floorSlope, gradeBeamDiff>>

planeVars == <<error_meanFloor, error_fitFloor, error_stdFloor, slopes_fitFloor,
               error_meanGradeBeam, error_fitGradeBeam, error_stdGradeBeam,
               slopes_fitGradeBeam>>

diffVars == <<beamDiff, beamDiffProj, beamSlope, beamSlopeProj, floorDiffElev,
              floorDiffProj>>

beamStyleVars == <<beamDir, beamSymbol, beamDiffColor, beamSlopeColor, beamSlopeProjColor>>

floorStyleVars == <<floorDir, floorSymbol, floorDiffColor, gradeBeamDiffColor,
                    floorSlopeColor>>

styleVars == <<beamStyleVars, floorStyleVars>>

vars == <<pc, raised, inputVars, settleVars, projVars, planVars, planeVars, diffVars,
          styleVars>>

----------------------------------------------------------------------------
(* Float arithmetic with NaN and infinities.                               *)

Abs(x) == IF x < 0 THEN -x ELSE x

Sgn(x) == IF x < 0 THEN -1 ELSE IF x = 0 THEN 0 ELSE 1

RECURSIVE GCD(_, _)
GCD(a, b) == IF b = 0 THEN a ELSE GCD(b, a % b)

\* the rational n/d (d # 0) in lowest terms with a positive denominator
Q(n, d) ==
    LET g == GCD(Abs(n), Abs(d))
        s == Sgn(d)
    IN  <<(s * n) \div g, (s * d) \div g>>

NaN == <<>>

IsNaN(a) == a = NaN

IsInf(a) == a # NaN /\ a[2] = 0

IsNum(a) == a # NaN /\ a[2] # 0

fneg(a) == IF IsNaN(a) THEN NaN ELSE <<-a[1], a[2]>>

fadd(a, b) ==
    IF IsNaN(a) \/ IsNaN(b) THEN NaN
    ELSE IF IsInf(a) THEN (IF IsInf(b) /\ b # a THEN NaN ELSE a)
    ELSE IF IsInf(b) THEN b
    ELSE IF a[2] = 1 /\ b[2] = 1 THEN <<a[1] + b[1], 1>>
    ELSE LET g == GCD(a[2], b[2])
         IN  Q(a[1] * (b[2] \div g) + b[1] * (a[2] \div g), (a[2] \div g) * b[2])

fsub(a, b) == fadd(a, fneg(b))

fmul(a, b) ==
    IF IsNaN(a) \/ IsNaN(b) THEN NaN
    ELSE IF IsInf(a) \/ IsInf(b)
         THEN (IF a[1] = 0 \/ b[1] = 0 THEN NaN ELSE <<Sgn(a[1]) * Sgn(b[1]), 0>>)
    ELSE IF a[2] = 1 /\ b[2] = 1 THEN <<a[1] * b[1], 1>>
    ELSE LET g == GCD(Abs(a[1]), b[2])
             h == GCD(Abs(b[1]), a[2])
         IN  Q((a[1] \div g) * (b[1] \div h), (a[2] \div h) * (b[2] \div g))

fdiv(a, b) ==
    IF IsNaN(a) \/ IsNaN(b) THEN NaN
    ELSE IF IsInf(b) THEN (IF IsInf(a) THEN NaN ELSE <<0, 1>>)
    ELSE IF b[1] = 0 THEN (IF a[1] = 0 THEN NaN ELSE <<Sgn(a[1]), 0>>)
    ELSE IF IsInf(a) THEN <<a[1] * Sgn(b[1]), 0>>
    ELSE LET g == GCD(Abs(a[1]), Abs(b[1]))
             h == GCD(a[2], b[2])
         IN  Q((a[1] \div g) * (b[2] \div h), (a[2] \div h) * (b[1] \div g))

fabs(a) == IF IsNaN(a) THEN NaN ELSE <<Abs(a[1]), a[2]>>

\* a < b on floats; any comparison with NaN is false
flt(a, b) ==
    /\ ~IsNaN(a) /\ ~IsNaN(b) /\ a # b
    /\ IF IsInf(a) THEN a[1] < 0
       ELSE IF IsInf(b) THEN b[1] > 0
       ELSE a[1] * b[2] < b[1] * a[2]

\* 10^k
RECURSIVE Pow10(_)
Pow10(k) == IF k = 0 THEN 1 ELSE 10 * Pow10(k - 1)

\* floor(r * 10^k / d) and what is left of the division, digit by digit
RECURSIVE ScaledFloor(_, _, _)
ScaledFloor(r, d, k) ==
    IF k = 0 THEN <<0, r>>
    ELSE LET prev == ScaledFloor(r, d, k - 1)
         IN  <<prev[1] * 10 + (prev[2] * 10) \div d, (prev[2] * 10) % d>>

\* DataFrame.round(decimals): nearest multiple of 10^-decimals, ties to even
fround(a, decimals) ==
    IF ~IsNum(a) THEN a
    ELSE LET s  == Pow10(decimals)
             f  == ScaledFloor(a[1] % a[2], a[2], decimals)
             lo == (a[1] \div a[2]) * s + f[1]
             r  == f[2]
             k  == IF 2 * r < a[2] THEN lo
                   ELSE IF 2 * r > a[2] THEN lo + 1
                   ELSE IF lo % 2 = 0 THEN lo ELSE lo + 1
         IN  Q(k, s)

----------------------------------------------------------------------------
(* Dates: <<year, month, day>>, ordered by datetime.toordinal.             *)

IsLeap(y) == y % 4 = 0 /\ (y % 100 # 0 \/ y % 400 = 0)

DaysInMonth(y, m) ==
    IF m = 2 THEN (IF IsLeap(y) THEN 29 ELSE 28)
    ELSE IF m \in {4, 6, 9, 11} THEN 30 ELSE 31

RECURSIVE DaysBeforeMonth(_, _)
DaysBeforeMonth(y, m) ==
    IF m = 1 THEN 0 ELSE DaysBeforeMonth(y, m - 1) + DaysInMonth(y, m - 1)

DaysBeforeYear(y) ==
    (y - 1) * 365 + ((y - 1) \div 4) - ((y - 1) \div 100) + ((y - 1) \div 400)

toordinal(date) ==
    DaysBeforeYear(date[1]) + DaysBeforeMonth(date[1], date[2]) + date[3]

year(date) == date[1]

\* the labels the engines drop by name
EXCLUDED_2010 == {<<2010, 11, 2>>, <<2010, 11, 3>>}

EXCLUDED_2022 == <<2022, 1, 7>>

SHIM_SURVEY == <<2017, 12, 1>>

----------------------------------------------------------------------------
(* Tables.                                                                 *)

EmptyTable == [dates |-> <<>>, v |-> <<>>]

Rows(t) == DOMAIN t.v

NDates(t) == Len(t.dates)

\* positions of the rows of a date-indexed table that carry one of `labels`
Positions(dates, labels) == {i \in 1..Len(dates) : dates[i] \in labels}

\* SelectSeq by position
RECURSIVE KeepPos(_, _, _)
KeepPos(s, keep, i) ==
    IF i > Len(s) THEN <<>>
    ELSE (IF i \in keep THEN <<s[i]>> ELSE <<>>) \o KeepPos(s, keep, i + 1)

\* DataFrame.drop(labels): every label must be in the axis
DropRaises(t, labels) == \E l \in labels : Positions(t.dates, {l}) = {}

Drop(t, labels) ==
    LET keep == (1..NDates(t)) \ Positions(t.dates, labels)
    IN  [dates |-> KeepPos(t.dates, keep, 1),
         v     |-> [p \in Rows(t) |-> KeepPos(t.v[p], keep, 1)]]

\* the last non-missing cell of col before position i, missing when none
RECURSIVE LastValid(_, _)
LastValid(col, i) ==
    IF i <= 1 THEN NaN
    ELSE IF ~IsNaN(col[i - 1]) THEN col[i - 1] ELSE LastValid(col, i - 1)

\* faulty variant: the difference is taken from the last non-missing reading
Diff_skipna(t) ==
    [dates |-> t.dates,
     v     |-> [p \in Rows(t) |->
                   [i \in 1..NDates(t) |->
                       IF i = 1 THEN NaN ELSE fsub(t.v[p][i], LastValid(t.v[p], i))]]]

\* DataFrame.diff() along the date axis
Diff(t) ==
    [dates |-> t.dates,
     v     |-> [p \in Rows(t) |->
                   [i \in 1..NDates(t) |->
                       IF i = 1 THEN NaN ELSE fsub(t.v[p][i], t.v[p][i - 1])]]]

\* element-wise scalar operations
Mul(t, k) ==
    [dates |-> t.dates,
     v     |-> [p \in Rows(t) |-> [i \in 1..NDates(t) |-> fmul(t.v[p][i], k)]]]

Round(t, decimals) ==
    [dates |-> t.dates,
     v     |-> [p \in Rows(t) |-> [i \in 1..NDates(t) |-> fround(t.v[p][i], decimals)]]]

\* df[[label]]: the column with that label, as a map from row label to cell
HasColumn(t, label) == Positions(t.dates, {label}) # {}

Column(t, label) ==
    LET i == CHOOSE j \in Positions(t.dates, {label}) : TRUE
    IN  [p \in Rows(t) |-> t.v[p][i]]

PosOf(dates, d) == CHOOSE i \in 1..Len(dates) : dates[i] = d

\* the cell at (row label, date label); missing when the table has no such cell
At(t, p, d) ==
    IF p \notin Rows(t) \/ Positions(t.dates, {d}) = {} THEN NaN
    ELSE t.v[p][PosOf(t.dates, d)]

\* the row of a left join: the cells of row p, missing when t has no row p
JoinRow(t, p) == IF p \in Rows(t) THEN t.v[p] ELSE [i \in 1..NDates(t) |-> NaN]

\* labels in chronological order
RECURSIVE SortDates(_)
SortDates(S) ==
    IF S = {} THEN <<>>
    ELSE LET d == CHOOSE x \in S : \A y \in S : toordinal(x) <= toordinal(y)
         IN  <<d>> \o SortDates(S \ {d})

Range(s) == {s[i] : i \in 1..Len(s)}

\* DataFrame.add(other): aligned on both axes, missing where either is
Add(a, b) ==
    LET ds == IF a.dates = b.dates THEN a.dates
              ELSE SortDates(Range(a.dates) \cup Range(b.dates))
    IN  [dates |-> ds,
         v     |-> [p \in Rows(a) \cup Rows(b) |->
                       [i \in 1..Len(ds) |-> fadd(At(a, p, ds[i]), At(b, p, ds[i]))]]]

\* DataFrame.dropna(axis=1, how='all')
DropEmptyDates(t) ==
    LET keep == {i \in 1..NDates(t) : \E p \in Rows(t) : ~IsNaN(t.v[p][i])}
    IN  [dates |-> KeepPos(t.dates, keep, 1),
         v     |-> [p \in Rows(t) |-> KeepPos(t.v[p], keep, 1)]]

\* DataFrame.iloc[:, 1:]
DropFirstDate(t) ==
    IF NDates(t) = 0 THEN t
    ELSE [dates |-> Tail(t.dates), v |-> [p \in Rows(t) |-> Tail(t.v[p])]]

\* DataFrame.abs()
AbsTable(t) ==
    [dates |-> t.dates,
     v     |-> [p \in Rows(t) |-> [i \in 1..NDates(t) |-> fabs(t.v[p][i])]]]

----------------------------------------------------------------------------
(* read_beamInfo                                                           *)
(* beamInfo is the sequence of rows of the reference file; a row has the   *)
(* fields MP_W_S, MP_E_N, beamName, beamDir (text, "" when missing) and    *)
(* beamLength, mpX, mpY, beamX, beamY (floats).                            *)

NoLabel == ""

\* beamInfo[['MP_W_S', 'MP_E_N', 'beamName', 'beamLength']].dropna()
beamLength(info) ==
    SelectSeq(info, LAMBDA r : /\ r.MP_W_S # NoLabel /\ r.MP_E_N # NoLabel
                               /\ r.beamName # NoLabel /\ ~IsNaN(r.beamLength))

\* beamInfo[['MP_W_S', 'mpX', 'mpY']].dropna(), indexed by monitor point
MPlocations(info) ==
    SelectSeq(info, LAMBDA r : r.MP_W_S # NoLabel /\ ~IsNaN(r.mpX) /\ ~IsNaN(r.mpY))

LocatedPoints(info) == {MPlocations(info)[i].MP_W_S : i \in 1..Len(MPlocations(info))}

\* pd.melt(beamLength, id_vars=['beamName', 'beamLength']): the west/south
\* ends of all beams, then the east/north ends
beamLength_long(info) ==
    LET bl == beamLength(info)
        n  == Len(bl)
    IN  [i \in 1..(2 * n) |->
            IF i <= n
            THEN [beamName |-> bl[i].beamName, beamLength |-> bl[i].beamLength,
                  beamEnd |-> "MP_W_S", MONITOR_POINT |-> bl[i].MP_W_S]
            ELSE [beamName |-> bl[i - n].beamName, beamLength |-> bl[i - n].beamLength,
                  beamEnd |-> "MP_E_N", MONITOR_POINT |-> bl[i - n].MP_E_N]]

BeamNames(long) == {long[i].beamName : i \in 1..Len(long)}

\* sort_values('beamName'), index de-duplicated keeping the first row
beamLength_sort(info) ==
    LET long == beamLength_long(info)
    IN  [b \in BeamNames(long) |->
            long[CHOOSE i \in 1..Len(long) :
                    /\ long[i].beamName = b
                    /\ \A j \in 1..(i - 1) : long[j].beamName # b].beamLength]

\* the beams that have a plot position:
\* beamInfo[['beamName', 'beamX', 'beamY']].dropna()
PlotNames(info) ==
    {info[i].beamName : i \in {j \in 1..Len(info) :
        /\ info[j].beamName # NoLabel
        /\ ~IsNaN(info[j].beamX) /\ ~IsNaN(info[j].beamY)}}

\* MPlocations.join(t): the rows of t at the located points
LocatedJoin(info, t) ==
    [dates |-> t.dates, v |-> [p \in LocatedPoints(info) |-> JoinRow(t, p)]]

----------------------------------------------------------------------------
(* calc_settlement                                                         *)

FT_TO_IN == 12

DAYS_PER_YEAR == 365

\* groupby('dummy').first(): the first non-missing cell of each column
RECURSIVE First(_)
First(col) ==
    IF col = <<>> THEN NaN
    ELSE IF ~IsNaN(Head(col)) THEN Head(col) ELSE First(Tail(col))

\* faulty variant: the baseline is the reading of the first survey row
firstValue_firstRow(survey) == [p \in Rows(survey) |-> survey.v[p][1]]

firstValue(survey) == [p \in Rows(survey) |-> First(survey.v[p])]

\* 12.31 ft, SPS as-builts sheet A5.1
GRADE_BEAM_DEPTH == Q(1231, 100)

\* shim_2017.add(12.31).sub(truss_2017), aligned on the monitor points
height_gradeBeam_lug(truss, shim) ==
    LET t17 == Column(truss, SHIM_SURVEY)
        s17 == Column(shim, SHIM_SURVEY)
    IN  [p \in Rows(truss) \cup Rows(shim) |->
            IF p \in Rows(truss) /\ p \in Rows(shim)
            THEN fsub(fadd(s17[p], GRADE_BEAM_DEPTH), t17[p])
            ELSE NaN]

\* survey_clean.sub(height_gradeBeam_lug, axis = 0)
calc_gradeBeamElev(survey, truss, shim) ==
    LET h == height_gradeBeam_lug(truss, shim)
    IN  [dates |-> survey.dates,
         v     |-> [p \in Rows(survey) \cup DOMAIN h |->
                       [i \in 1..NDates(survey) |->
                           IF p \in Rows(survey) /\ p \in DOMAIN h
                           THEN fsub(survey.v[p][i], h[p])
                           ELSE NaN]]]

\* faulty variant: a settlement that cannot be computed is entered as 0
calc_cumulative_zeroFilled(survey) ==
    LET fv == firstValue(survey)
    IN  [dates |-> survey.dates,
         v     |-> [p \in Rows(survey) |->
                       [i \in 1..NDates(survey) |->
                           IF IsNaN(fsub(fv[p], survey.v[p][i])) THEN <<0, 1>>
                           ELSE fsub(fv[p], survey.v[p][i])]]]

\* apply(lambda row: firstValue - row, axis=1)
calc_cumulative(survey) ==
    LET fv == firstValue(survey)
    IN  [dates |-> survey.dates,
         v     |-> [p \in Rows(survey) |->
                       [i \in 1..NDates(survey) |-> fsub(fv[p], survey.v[p][i])]]]

\* faulty variant: the surveys of 2010-11-02 and 2010-11-03 are differenced too
calc_delta_allDates(settle) == Mul(Diff(settle), Q(FT_TO_IN, 1))

\* faulty variant: the difference is left in feet
calc_delta_feet(settle) == Diff(Drop(settle, EXCLUDED_2010))

\* settlement.drop(['2010-11-02', '2010-11-03']).diff().mul(12)
calc_delta(settle) == Mul(Diff(Drop(settle, EXCLUDED_2010)), Q(FT_TO_IN, 1))

\* index.to_series().diff().dt.days
diffDays(dates) ==
    [i \in 1..Len(dates) |->
        IF i = 1 THEN NaN ELSE Q(toordinal(dates[i]) - toordinal(dates[i - 1]), 1)]

\* settlement_delta.div(diffDays, axis=0).mul(365).round(3)
calc_rate(delta) ==
    LET dd == diffDays(delta.dates)
    IN  Round(Mul([dates |-> delta.dates,
                   v     |-> [p \in Rows(delta) |->
                                 [i \in 1..NDates(delta) |-> fdiv(delta.v[p][i], dd[i])]]],
                  Q(DAYS_PER_YEAR, 1)), 3)

\* firstValue.to_numpy()[0]: a survey table without dates has no first row
firstValue_raises(survey) == NDates(survey) = 0

calc_settlement_raises(survey, truss, shim) ==
    \/ firstValue_raises(survey)
    \/ ~HasColumn(truss, SHIM_SURVEY)
    \/ ~HasColumn(shim, SHIM_SURVEY)
    \/ DropRaises(survey, EXCLUDED_2010)

CalcSettlement ==
    /\ pc = "loaded"
    /\ IF calc_settlement_raises(survey_clean, truss_clean, shim_clean)
       THEN /\ pc' = "aborted"
            /\ raised' = IF firstValue_raises(survey_clean)
                         THEN "IndexError" ELSE "KeyError"
            /\ UNCHANGED settleVars
       ELSE /\ pc' = "settled"
            /\ raised' = "none"
            /\ elevation' = survey_clean
            /\ gradeBeamElev' = calc_gradeBeamElev(survey_clean, truss_clean, shim_clean)
            /\ gradeBeamElevPlot' =
                   LocatedJoin(beamInfo,
                               calc_gradeBeamElev(survey_clean, truss_clean, shim_clean))
            /\ settlement' = calc_cumulative(survey_clean)
            /\ settlement_delta' = calc_delta(calc_cumulative(survey_clean))
            /\ settlement_rate' = calc_rate(calc_delta(calc_cumulative(survey_clean)))
    /\ UNCHANGED <<inputVars, projVars, planVars, planeVars, diffVars, styleVars>>

----------------------------------------------------------------------------
(* calc_forecast_settlement, calc_forecast_elevation                       *)

\* the defaults of the sidebar inputs
DEFAULT_NSURVEY == 6

DEFAULT_NYEARS == 5

\* dt.datetime.fromordinal
fromordinal(n) ==
    LET y == CHOOSE c \in (n \div 366)..(n \div 365 + 1) :
                 DaysBeforeYear(c) < n /\ n <= DaysBeforeYear(c + 1)
        r == n - DaysBeforeYear(y)
        m == CHOOSE c \in 1..12 :
                 DaysBeforeMonth(y, c) < r /\ r <= DaysBeforeMonth(y, c) + DaysInMonth(y, c)
    IN  <<y, m, r - DaysBeforeMonth(y, m)>>

\* the positions of iloc[len - nsurvey : len], a Python slice: a negative
\* start counts from the end
WindowRows(len, n) ==
    LET start == len - n
        from  == IF start >= 0 THEN start
                 ELSE IF len + start < 0 THEN 0 ELSE len + start
    IN  {i \in 1..len : i > from}

Window(t, n) ==
    LET keep == WindowRows(NDates(t), n)
    IN  [dates |-> KeepPos(t.dates, keep, 1),
         v     |-> [p \in Rows(t) |-> KeepPos(t.v[p], keep, 1)]]

RECURSIVE SumSeq(_)
SumSeq(s) == IF s = <<>> THEN <<0, 1>> ELSE fadd(Head(s), SumSeq(Tail(s)))

Mean(s) == fdiv(SumSeq(s), Q(Len(s), 1))

\* faulty variant: the regression runs on the row number, not on the ordinal day
linregress_slope_byPosition(x, y) ==
    LET xs == [i \in 1..Len(x) |-> Q(i, 1)]
        xm == Mean(xs)
        ym == Mean(y)
        ssxm  == SumSeq([i \in 1..Len(x) |-> fmul(fsub(xs[i], xm), fsub(xs[i], xm))])
        ssxym == SumSeq([i \in 1..Len(x) |-> fmul(fsub(xs[i], xm), fsub(y[i], ym))])
    IN  fdiv(ssxym, ssxm)

\* faulty variant: a slope that cannot be computed counts as no trend
linregress_slope_zeroIfMissing(x, y) ==
    LET xs == [i \in 1..Len(x) |-> Q(x[i], 1)]
        xm == Mean(xs)
        ym == Mean(y)
        ssxm  == SumSeq([i \in 1..Len(x) |-> fmul(fsub(xs[i], xm), fsub(xs[i], xm))])
        ssxym == SumSeq([i \in 1..Len(x) |-> fmul(fsub(xs[i], xm), fsub(y[i], ym))])
    IN  IF IsNaN(fdiv(ssxym, ssxm)) THEN <<0, 1>> ELSE fdiv(ssxym, ssxm)

\* scipy.stats.linregress(x, y).slope: covariance of x and y over the
\* variance of x; a missing y makes it missing
linregress_slope(x, y) ==
    LET xs == [i \in 1..Len(x) |-> Q(x[i], 1)]
        xm == Mean(xs)
        ym == Mean(y)
        ssxm  == SumSeq([i \in 1..Len(x) |-> fmul(fsub(xs[i], xm), fsub(xs[i], xm))])
        ssxym == SumSeq([i \in 1..Len(x) |-> fmul(fsub(xs[i], xm), fsub(y[i], ym))])
    IN  fdiv(ssxym, ssxm)

\* linregress raises when several x values are all identical; a single
\* point has no slope (0 / 0) and raises nothing
linregress_raises(x) == Len(x) > 1 /\ \A i \in 1..Len(x) : x[i] = x[1]

\* faulty variant: the forecast dates start with January 1 of the current year
projList_fromCurrentYear(currentYear, years) ==
    [k \in 1..years |-> <<currentYear + k - 1, 1, 1>>]

\* projList: January 1 of the nyears years after the last survey of the window
projList(currentYear, years) == [k \in 1..years |-> <<currentYear + k, 1, 1>>]

\* the exception the forecast ends with, "none" when it returns
ForecastRaises(t, n) ==
    IF DropRaises(t, {EXCLUDED_2022}) THEN "KeyError"
    ELSE LET interp == Window(Drop(t, {EXCLUDED_2022}), n)
         IN  IF NDates(interp) = 0 THEN "IndexError"
             ELSE IF n - 1 >= NDates(interp) THEN "IndexError"
             ELSE IF linregress_raises([i \in 1..NDates(interp) |->
                                           toordinal(interp.dates[i])])
                  THEN "ValueError"
             ELSE "none"

\* faulty variant: the window is taken from the table with 2022-01-07 in it
Forecast_keep2022(t, n, years) ==
    LET interp   == Window(t, n)
        currentYear == year(interp.dates[NDates(interp)])
        x        == [i \in 1..NDates(interp) |-> toordinal(interp.dates[i])]
        future   == projList(currentYear, years)
        ends     == <<x[n]>> \o [k \in 1..years |-> toordinal(future[k])]
        deltaDays == [k \in 1..Len(ends) |-> ends[k] - ends[1]]
    IN  [dates |-> [k \in 1..Len(ends) |-> fromordinal(ends[k])],
         v     |-> [p \in Rows(t) |->
                       LET slope == linregress_slope(x, interp.v[p])
                           starting == interp.v[p][NDates(interp)]
                       IN  [k \in 1..Len(ends) |->
                               fround(fadd(starting, fmul(slope, Q(deltaDays[k], 1))), 3)]]]

\* the projection table: the last survey of the window and the future dates
Forecast(t, n, years) ==
    LET clean    == Drop(t, {EXCLUDED_2022})
        interp   == Window(clean, n)
        currentYear == year(interp.dates[NDates(interp)])
        x        == [i \in 1..NDates(interp) |-> toordinal(interp.dates[i])]
        future   == projList(currentYear, years)
        ends     == <<x[n]>> \o [k \in 1..years |-> toordinal(future[k])]
        deltaDays == [k \in 1..Len(ends) |-> ends[k] - ends[1]]
    IN  [dates |-> [k \in 1..Len(ends) |-> fromordinal(ends[k])],
         v     |-> [p \in Rows(t) |->
                       LET slope == linregress_slope(x, interp.v[p])
                           starting == interp.v[p][NDates(interp)]
                       IN  [k \in 1..Len(ends) |->
                               fround(fadd(starting, fmul(slope, Q(deltaDays[k], 1))), 3)]]]

\* faulty variant: the 2022-01-07 row is dropped from the settlement table itself
CalcForecastSettlement_dropInPlace ==
    /\ pc = "settled"
    /\ IF ForecastRaises(settlement, nsurvey) # "none"
       THEN /\ pc' = "aborted"
            /\ raised' = ForecastRaises(settlement, nsurvey)
            /\ UNCHANGED <<settlement, settlementProj, settlementProj_trans>>
       ELSE /\ pc' = "forecast_settlement"
            /\ raised' = "none"
            /\ settlement' = Drop(settlement, {EXCLUDED_2022})
            /\ settlementProj' = Forecast(settlement, nsurvey, nyears)
            /\ settlementProj_trans' = DropFirstDate(Forecast(settlement, nsurvey, nyears))
    /\ UNCHANGED <<inputVars, elevation, gradeBeamElev, gradeBeamElevPlot,
                   settlement_delta, settlement_rate, planVars, planeVars, diffVars,
                   styleVars, elevProj, elevFloorProj, elevGradeBeamProj>>

CalcForecastSettlement ==
    /\ pc = "settled"
    /\ IF ForecastRaises(settlement, nsurvey) # "none"
       THEN /\ pc' = "aborted"
            /\ raised' = ForecastRaises(settlement, nsurvey)
            /\ UNCHANGED <<settlementProj, settlementProj_trans>>
       ELSE /\ pc' = "forecast_settlement"
            /\ raised' = "none"
            /\ settlementProj' = Forecast(settlement, nsurvey, nyears)
            /\ settlementProj_trans' = DropFirstDate(Forecast(settlement, nsurvey, nyears))
    /\ UNCHANGED <<inputVars, settleVars, planVars, planeVars, diffVars, styleVars,
                   elevProj, elevFloorProj, elevGradeBeamProj>>

\* 11.31 ft, the grade beam below the survey lug
LUG_ABOVE_GRADE_BEAM == Q(1131, 100)

\* truss_clean.iloc[:,-1]
currentTruss(truss) == [p \in Rows(truss) |-> truss.v[p][NDates(truss)]]

\* elevProj_trans.add(currentTruss, axis="index")
calc_elevFloorProj(proj, truss) ==
    [dates |-> proj.dates,
     v     |-> [p \in Rows(proj) \cup Rows(truss) |->
                   [k \in 1..NDates(proj) |->
                       IF p \in Rows(proj) /\ p \in Rows(truss)
                       THEN fadd(proj.v[p][k], currentTruss(truss)[p])
                       ELSE NaN]]]

\* elevProj_trans.sub(11.31)
calc_elevGradeBeamProj(proj) ==
    [dates |-> proj.dates,
     v     |-> [p \in Rows(proj) |->
                   [k \in 1..NDates(proj) |-> fsub(proj.v[p][k], LUG_ABOVE_GRADE_BEAM)]]]

ForecastElevationRaises(t, truss, n) ==
    IF ForecastRaises(t, n) # "none" THEN ForecastRaises(t, n)
    ELSE IF NDates(truss) = 0 THEN "IndexError"
    ELSE "none"

CalcForecastElevation ==
    /\ pc = "forecast_settlement"
    /\ IF ForecastElevationRaises(elevation, truss_clean, nsurvey) # "none"
       THEN /\ pc' = "aborted"
            /\ raised' = ForecastElevationRaises(elevation, truss_clean, nsurvey)
            /\ UNCHANGED <<elevProj, elevFloorProj, elevGradeBeamProj>>
       ELSE /\ pc' = "forecast_elevation"
            /\ raised' = "none"
            /\ elevProj' = Forecast(elevation, nsurvey, nyears)
            /\ elevFloorProj' = calc_elevFloorProj(Forecast(elevation, nsurvey, nyears),
                                                   truss_clean)
            /\ elevGradeBeamProj' = calc_elevGradeBeamProj(Forecast(elevation, nsurvey, nyears))
    /\ UNCHANGED <<inputVars, settleVars, planVars, planeVars, diffVars, styleVars,
                   settlementProj, settlementProj_trans>>

----------------------------------------------------------------------------
(* calc_differental_settlement, calc_plan_dataframe                        *)

\* faulty variant: the ends sort the other way round
EndRank_reversed(beamEnd) == IF beamEnd = "MP_E_N" THEN 2 ELSE 1

\* the order of sort_values(by=['beamName', 'beamEnd']): 'MP_E_N' < 'MP_W_S'
EndRank(beamEnd) == IF beamEnd = "MP_E_N" THEN 1 ELSE 2

\* the rows of one beam in sorted order
GroupRows(long, b) ==
    SelectSeq(long, LAMBDA r : r.beamName = b /\ EndRank(r.beamEnd) = 1)
        \o SelectSeq(long, LAMBDA r : r.beamName = b /\ EndRank(r.beamEnd) = 2)

\* faulty variant: the magnitude of the difference is kept
PairDiff_abs(long, t) ==
    [dates |-> t.dates,
     v     |-> [b \in {long[i].beamName : i \in 1..Len(long)} |->
                   LET g == SelectSeq(long, LAMBDA r : r.beamName = b)
                       n == Len(g)
                   IN  [i \in 1..NDates(t) |->
                           IF n < 2 THEN NaN
                           ELSE fabs(fmul(fsub(JoinRow(t, g[n].MONITOR_POINT)[i],
                                               JoinRow(t, g[n - 1].MONITOR_POINT)[i]),
                                          Q(FT_TO_IN, 1)))]]]

\* faulty variant: the first row of each beam is kept
PairDiff_keepFirst(long, t) ==
    [dates |-> t.dates,
     v     |-> [b \in BeamNames(long) |-> [i \in 1..NDates(t) |-> NaN]]]

\* long.join(t) ... groupby(['beamName']).diff().mul(12), index de-duplicated
\* keeping the last row of each beam
PairDiff(long, t) ==
    [dates |-> t.dates,
     v     |-> [b \in BeamNames(long) |->
                   LET g == GroupRows(long, b)
                       n == Len(g)
                   IN  [i \in 1..NDates(t) |->
                           IF n < 2 THEN NaN
                           ELSE fmul(fsub(JoinRow(t, g[n].MONITOR_POINT)[i],
                                          JoinRow(t, g[n - 1].MONITOR_POINT)[i]),
                                     Q(FT_TO_IN, 1))]]]

\* beamInfo[['beamName', 'beamX', 'beamY']].dropna().set_index(['beamName']).join(t)
PlotJoin(info, t) ==
    [dates |-> t.dates, v |-> [b \in PlotNames(info) |-> JoinRow(t, b)]]

\* faulty variant: the differential is multiplied by the beam length
SlopeTable_mul(lens, diff) ==
    [dates |-> diff.dates,
     v     |-> [b \in DOMAIN lens |->
                   [i \in 1..NDates(diff) |-> fmul(JoinRow(diff, b)[i], lens[b])]]]

\* beamLength_sort.join(diff); iloc[:,1:].div(beamLength, axis=0)
SlopeTable(lens, diff) ==
    [dates |-> diff.dates,
     v     |-> [b \in DOMAIN lens |->
                   [i \in 1..NDates(diff) |-> fdiv(JoinRow(diff, b)[i], lens[b])]]]

\* long.join(a).join(b): the date columns of a, then those of b
JoinBoth(long, a, b) ==
    [dates |-> a.dates \o b.dates,
     v     |-> [p \in {long[i].MONITOR_POINT : i \in 1..Len(long)} |->
                   JoinRow(a, p) \o JoinRow(b, p)]]

\* MPlocations.join(floorElev_clean)
calc_floorElevPlot(info, survey, truss) ==
    LocatedJoin(info, DropEmptyDates(Add(survey, truss)))

calc_floorDiff(info, survey, truss) ==
    PairDiff(beamLength_long(info), DropEmptyDates(Add(survey, truss)))

calc_floorSlope(info, survey, truss) ==
    SlopeTable(beamLength_sort(info), calc_floorDiff(info, survey, truss))

calc_gradeBeamDiff(info, gbElev) == PairDiff(beamLength_long(info), gbElev)

CalcPlanDataframe ==
    /\ pc = "forecast_elevation"
    /\ pc' = "planned"
    /\ floorElevPlot' = calc_floorElevPlot(beamInfo, survey_clean, truss_clean)
    /\ floorDiff' = calc_floorDiff(beamInfo, survey_clean, truss_clean)
    /\ floorSlope' = calc_floorSlope(beamInfo, survey_clean, truss_clean)
    /\ gradeBeamDiff' = calc_gradeBeamDiff(beamInfo, gradeBeamElev)
    /\ UNCHANGED <<raised, inputVars, settleVars, projVars, planeVars, diffVars,
                   styleVars>>

calc_beamDiff(info, survey) == PlotJoin(info, PairDiff(beamLength_long(info), survey))

calc_beamDiffProj(info, proj) == PairDiff(beamLength_long(info), proj)

calc_beamSlope(info, survey) ==
    PlotJoin(info, SlopeTable(beamLength_sort(info), calc_beamDiff(info, survey)))

calc_beamSlopeProj(info, proj) ==
    SlopeTable(beamLength_sort(info), calc_beamDiffProj(info, proj))

calc_floorDiffElev(info, floorPlot, floorProj) ==
    AbsTable(PairDiff(beamLength_long(info),
                      JoinBoth(beamLength_long(info), floorPlot, DropFirstDate(floorProj))))

calc_floorDiffProj(info, floorProj) ==
    AbsTable(PairDiff(beamLength_long(info), floorProj))

\* faulty variant: the lug differentials are computed before the planes are fitted
CalcDifferentalSettlement_beforePlaneFit ==
    /\ pc = "planned"
    /\ pc' = "differenced"
    /\ raised' = "none"
    /\ beamDiff' = calc_beamDiff(beamInfo, survey_clean)
    /\ beamDiffProj' = calc_beamDiffProj(beamInfo, settlementProj_trans)
    /\ beamSlope' = calc_beamSlope(beamInfo, survey_clean)
    /\ beamSlopeProj' = calc_beamSlopeProj(beamInfo, settlementProj_trans)
    /\ floorDiffElev' = calc_floorDiffElev(beamInfo, floorElevPlot, elevFloorProj)
    /\ floorDiffProj' = calc_floorDiffProj(beamInfo, elevFloorProj)
    /\ UNCHANGED <<inputVars, settleVars, projVars, planVars, planeVars, styleVars>>

\* DataFrame.join of frames that share a column label
JoinOverlaps(a, b) == Range(a.dates) \cap Range(b.dates) # {}

CalcDifferentalSettlement ==
    /\ pc = "fitted"
    /\ IF JoinOverlaps(floorElevPlot, DropFirstDate(elevFloorProj))
       THEN /\ pc' = "aborted"
            /\ raised' = "ValueError"
            /\ UNCHANGED diffVars
       ELSE /\ pc' = "differenced"
            /\ raised' = "none"
            /\ beamDiff' = calc_beamDiff(beamInfo, survey_clean)
            /\ beamDiffProj' = calc_beamDiffProj(beamInfo, settlementProj_trans)
            /\ beamSlope' = calc_beamSlope(beamInfo, survey_clean)
            /\ beamSlopeProj' = calc_beamSlopeProj(beamInfo, settlementProj_trans)
            /\ floorDiffElev' = calc_floorDiffElev(beamInfo, floorElevPlot, elevFloorProj)
            /\ floorDiffProj' = calc_floorDiffProj(beamInfo, elevFloorProj)
    /\ UNCHANGED <<inputVars, settleVars, projVars, planVars, planeVars, styleVars>>

----------------------------------------------------------------------------
(* plot_beamStyles, plot_floorStyles                                       *)
(* A style table has the shape of a table; its cells are angles in degrees *)
(* or the names of colours and marker symbols.                             *)

\* a >= b on floats; any comparison with NaN is false
fge(a, b) == ~IsNaN(a) /\ ~IsNaN(b) /\ ~flt(a, b)

\* faulty variant: a differential of zero points the other way
base_angle_positiveOnly(d) == IF flt(Q(0, 1), d) THEN Q(0, 1) ELSE Q(180, 1)

\* np.where(diff >= 0, 0, 180)
base_angle(d) == IF fge(d, Q(0, 1)) THEN Q(0, 1) ELSE Q(180, 1)

\* the beamDir label of a beam in beamInfo[['beamName', 'beamDir']]
beamDirLabels(info, b) ==
    info[CHOOSE i \in 1..Len(info) : info[i].beamName = b].beamDir

\* beamDirLabels.join(angles).dropna(); 90 degrees off where beamDir is not 'h'
DirTable(info, diff) ==
    LET named == {info[i].beamName : i \in {j \in 1..Len(info) :
                      /\ info[j].beamDir # NoLabel
                      /\ NDates(diff) = 0 \/ info[j].beamName \in Rows(diff)}}
    IN  [dates |-> diff.dates,
         v     |-> [b \in named |->
                       [i \in 1..NDates(diff) |->
                           IF beamDirLabels(info, b) # "h"
                           THEN fsub(base_angle(diff.v[b][i]), Q(90, 1))
                           ELSE base_angle(diff.v[b][i])]]]

\* np.select([abs(d) > 0, abs(d) == 0], ['triangle-right', 'circle-open'], 'x')
symbol(d) ==
    IF flt(Q(0, 1), fabs(d)) THEN "triangle-right"
    ELSE IF fabs(d) = Q(0, 1) THEN "circle-open"
    ELSE "x"

\* the tiers of a differential [in]: below 1.5, 1.5 to 2, 2 and more
diff_color(d) ==
    IF flt(fabs(d), Q(3, 2)) THEN "black"
    ELSE IF fge(fabs(d), Q(3, 2)) /\ flt(fabs(d), Q(2, 1)) THEN "orange"
    ELSE IF fge(fabs(d), Q(2, 1)) THEN "red"
    ELSE "blue"

\* the tiers of a slope [in/ft]: below 1/32, to 1/16, to 1/8, and the last
\* tier, which is read off `top`
slope_color(sl, top) ==
    IF flt(fabs(sl), Q(1, 32)) THEN "black"
    ELSE IF fge(fabs(sl), Q(1, 32)) /\ flt(fabs(sl), Q(1, 16)) THEN "gold"
    ELSE IF fge(fabs(sl), Q(1, 16)) /\ flt(fabs(sl), Q(1, 8)) THEN "orange"
    ELSE IF fge(fabs(top), Q(1, 8)) THEN "red"
    ELSE "blue"

\* the tiers of a projected slope
slope_proj_color(sl) ==
    IF flt(fabs(sl), Q(1, 32)) THEN "green"
    ELSE IF fge(fabs(sl), Q(1, 32)) /\ flt(fabs(sl), Q(1, 16)) THEN "teal"
    ELSE IF fge(fabs(sl), Q(1, 16)) /\ flt(fabs(sl), Q(1, 8)) THEN "blue"
    ELSE IF fge(fabs(sl), Q(1, 8)) THEN "purple"
    ELSE "blue"

\* pd.DataFrame(np.select(...), index = t.index, columns = t.columns)
calc_symbol(t) ==
    [dates |-> t.dates,
     v     |-> [b \in Rows(t) |-> [i \in 1..NDates(t) |-> symbol(t.v[b][i])]]]

calc_diffColor(t) ==
    [dates |-> t.dates,
     v     |-> [b \in Rows(t) |-> [i \in 1..NDates(t) |-> diff_color(t.v[b][i])]]]

calc_slopeProjColor(t) ==
    [dates |-> t.dates,
     v     |-> [b \in Rows(t) |-> [i \in 1..NDates(t) |-> slope_proj_color(t.v[b][i])]]]

\* the slope tiers of the lugs: the last condition tests abs(beamDiff)
calc_beamSlopeColor(diff, slope) ==
    [dates |-> diff.dates,
     v     |-> [b \in Rows(diff) |->
                   [i \in 1..NDates(diff) |-> slope_color(slope.v[b][i], diff.v[b][i])]]]

calc_floorSlopeColor(slope) ==
    [dates |-> slope.dates,
     v     |-> [b \in Rows(slope) |->
                   [i \in 1..NDates(slope) |-> slope_color(slope.v[b][i], slope.v[b][i])]]]

PlotBeamStyles ==
    /\ pc = "differenced"
    /\ pc' = "beam_styled"
    /\ beamDir' = DirTable(beamInfo, beamDiff)
    /\ beamSymbol' = calc_symbol(beamDiff)
    /\ beamDiffColor' = calc_diffColor(beamDiff)
    /\ beamSlopeColor' = calc_beamSlopeColor(beamDiff, beamSlope)
    /\ beamSlopeProjColor' = calc_slopeProjColor(beamSlopeProj)
    /\ UNCHANGED <<raised, inputVars, settleVars, projVars, planVars, planeVars, diffVars,
                   floorStyleVars>>

PlotFloorStyles ==
    /\ pc = "beam_styled"
    /\ pc' = "floor_styled"
    /\ floorDir' = DirTable(beamInfo, floorDiff)
    /\ floorSymbol' = calc_symbol(Round(floorDiff, 2))
    /\ floorDiffColor' = calc_diffColor(floorDiff)
    /\ gradeBeamDiffColor' = calc_diffColor(gradeBeamDiff)
    /\ floorSlopeColor' = calc_floorSlopeColor(floorSlope)
    /\ UNCHANGED <<raised, inputVars, settleVars, projVars, planVars, planeVars, diffVars,
                   beamStyleVars>>

----------------------------------------------------------------------------
(* calc_plane_error                                                        *)
(* The standard deviations and the maximum slopes are square roots; the    *)
(* tables keep their squares.                                              *)

pods == <<"A", "B">>

\* the pod letters that the label of a monitor point contains
PodLetters(s) ==
    CASE s \in {"A1-1", "A1-2", "A2-1", "A2-2"} -> {"A"}
      [] s \in {"B1-1", "B1-2", "B2-1"} -> {"B"}
      [] OTHER -> {}

\* floorElevPlot[[pod in s for s in floorElevPlot.index]]: the located
\* points of the pod, in the order of the reference file
PodRows(info, pod) ==
    SelectSeq(MPlocations(info), LAMBDA r : pod \in PodLetters(r.MP_W_S))

PodPoints(info, pod) == {PodRows(info, pod)[i].MP_W_S : i \in 1..Len(PodRows(info, pod))}

\* a matrix is a tuple of rows; Tuple keeps a sequence as an explicit tuple
\* and Explicit keeps a function as an explicit map
Tuple(s) == s \o <<>>

Explicit(f) == f @@ <<>>

MatMul(A, B) ==
    Tuple([i \in 1..Len(A) |->
              Tuple([j \in 1..Len(B[1]) |->
                        SumSeq([k \in 1..Len(B) |-> fmul(A[i][k], B[k][j])])])])

Transpose(A) == Tuple([j \in 1..Len(A[1]) |-> Tuple([i \in 1..Len(A) |-> A[i][j]])])

Others(i) == IF i = 1 THEN <<2, 3>> ELSE IF i = 2 THEN <<1, 3>> ELSE <<1, 2>>

Cofactor(M, i, j) ==
    LET r == Others(i)
        c == Others(j)
        d == fsub(fmul(M[r[1]][c[1]], M[r[2]][c[2]]), fmul(M[r[1]][c[2]], M[r[2]][c[1]]))
    IN  IF (i + j) % 2 = 0 THEN d ELSE fneg(d)

Det3(M) == SumSeq([j \in 1..3 |-> fmul(M[1][j], Cofactor(M, 1, j))])

\* the rows [x, y, 1] of the points of a pod
tmp_A(info, pod) ==
    LET rows == PodRows(info, pod)
    IN  Tuple([i \in 1..Len(rows) |-> <<rows[i].mpX, rows[i].mpY, Q(1, 1)>>])

\* faulty variant: a missing elevation enters the column as 0
tmp_b_zeroFilled(info, plot, pod, k) ==
    LET rows == PodRows(info, pod)
    IN  Tuple([i \in 1..Len(rows) |->
                  <<IF IsNum(plot.v[rows[i].MP_W_S][k]) THEN plot.v[rows[i].MP_W_S][k]
                    ELSE Q(0, 1)>>])

\* the column of the elevations of the points of a pod on the k-th date
tmp_b(info, plot, pod, k) ==
    LET rows == PodRows(info, pod)
    IN  Tuple([i \in 1..Len(rows) |-> <<plot.v[rows[i].MP_W_S][k]>>])

\* the matrix A.T * A of a pod with points has no inverse
Singular(info, pod) ==
    /\ PodRows(info, pod) # <<>>
    /\ Det3(MatMul(Transpose(tmp_A(info, pod)), tmp_A(info, pod))) = Q(0, 1)

\* what numpy.linalg.inv may hand back for a singular matrix when the
\* factorisation meets no exact zero pivot
SingularInverses ==
    {[i \in 1..3 |-> [j \in 1..3 |-> Q(0, 1)]],
     [i \in 1..3 |-> [j \in 1..3 |-> IF i = 3 /\ j = 3 THEN Q(1, 2) ELSE Q(0, 1)]]}

\* (A.T * A).I
Inverse(M, G) ==
    LET det == Det3(M)
    IN  IF det = Q(0, 1) THEN G
        ELSE Tuple([i \in 1..3 |-> Tuple([j \in 1..3 |-> fdiv(Cofactor(M, j, i), det)])])

\* faulty variant: the plane is fitted through the origin (no constant term)
solver_throughOrigin(A, G) ==
    LET A2 == Tuple([i \in 1..Len(A) |-> <<A[i][1], A[i][2], Q(0, 1)>>])
        M  == MatMul(Transpose(A2), A2)
        M1 == Tuple([i \in 1..3 |->
                        Tuple([j \in 1..3 |-> IF i = 3 /\ j = 3 THEN Q(1, 1) ELSE M[i][j]])])
    IN  MatMul(Inverse(M1, G), Transpose(A2))

\* (A.T * A).I * A.T, the same for every survey date of a pod
solver(A, G) == MatMul(Inverse(MatMul(Transpose(A), A), G), Transpose(A))

\* fit = (A.T * A).I * A.T * b, the coefficients of z = a x + b y + c
plane_fit(P, b) == MatMul(P, b)

\* faulty variant: the errors are measured from the plane without its constant term
plane_errors_noConstant(A, b, fit) ==
    LET pred == MatMul(A, <<fit[1], fit[2], <<Q(0, 1)>>>>)
    IN  Tuple([i \in 1..Len(b) |-> fsub(b[i][1], pred[i][1])])

\* errors = b - A * fit
plane_errors(A, b, fit) ==
    LET pred == MatMul(A, fit)
    IN  Tuple([i \in 1..Len(b) |-> fsub(b[i][1], pred[i][1])])

\* the fit of every pod on every survey date of a table
plane_fits(info, plot, solvers) ==
    Tuple([i \in 1..Len(pods) |->
              Tuple([k \in 1..NDates(plot) |->
                        plane_fit(solvers[i], tmp_b(info, plot, pods[i], k))])])

PodOf(info, p) == CHOOSE i \in 1..Len(pods) : p \in PodPoints(info, pods[i])

RowIn(info, pod, p) ==
    CHOOSE i \in 1..Len(PodRows(info, pod)) : PodRows(info, pod)[i].MP_W_S = p

PlanePoints(info) == PodPoints(info, pods[1]) \cup PodPoints(info, pods[2])

\* error_fit before the 2022 survey is removed, in feet
error_fit(info, plot, fits) ==
    LET sub == Tuple([i \in 1..Len(pods) |->
                   Tuple([k \in 1..NDates(plot) |->
                       plane_errors(tmp_A(info, pods[i]), tmp_b(info, plot, pods[i], k),
                                    fits[i][k])])])
    IN  [dates |-> plot.dates,
         v     |-> Explicit([p \in PlanePoints(info) |->
                       Tuple([k \in 1..NDates(plot) |->
                           sub[PodOf(info, p)][k][RowIn(info, pods[PodOf(info, p)], p)]])])]

Valid(s) == SelectSeq(s, IsNum)

\* Series.mean(): the mean of the values that are not missing
mean_skipna(s) == IF Valid(s) = <<>> THEN NaN ELSE Mean(Valid(s))

\* the square of Series.std(): the sample variance of the values that are
\* not missing
var_skipna(s) ==
    LET valid == Valid(s)
        m     == Mean(valid)
    IN  IF Len(valid) < 2 THEN NaN
        ELSE fdiv(SumSeq([i \in 1..Len(valid) |->
                             fmul(fsub(valid[i], m), fsub(valid[i], m))]),
                  Q(Len(valid) - 1, 1))

PodColumn(info, t, pod, k) ==
    LET rows == PodRows(info, pod)
    IN  Tuple([i \in 1..Len(rows) |-> t.v[rows[i].MP_W_S][k]])

\* error_mean before the 2022 survey is removed, in feet
error_mean(info, plot) ==
    LET mean_pod == Tuple([i \in 1..Len(pods) |->
                        Tuple([k \in 1..NDates(plot) |->
                            mean_skipna(PodColumn(info, plot, pods[i], k))])])
    IN  [dates |-> plot.dates,
         v     |-> Explicit([p \in PlanePoints(info) |->
                       Tuple([k \in 1..NDates(plot) |->
                           fsub(plot.v[p][k], mean_pod[PodOf(info, p)][k])])])]

\* error_std before the 2022 survey is removed: per date, the spread within
\* each pod of the mean-plane errors and of the fitted-plane errors
error_std(info, meanErrors, fitErrors, names) ==
    [dates |-> meanErrors.dates,
     v     |-> [c \in {names[i][j] : i \in 1..Len(pods), j \in 1..2} |->
                   LET i == CHOOSE n \in 1..Len(pods) : c \in Range(names[n])
                   IN  [k \in 1..NDates(meanErrors) |->
                           var_skipna(PodColumn(info,
                                                IF c = names[i][1] THEN meanErrors
                                                ELSE fitErrors,
                                                pods[i], k))]]]

FloorStdNames == <<<<"Pod A - Mean", "Pod A - Fitted">>, <<"Pod B - Mean", "Pod B - Fitted">>>>

GradeBeamStdNames == <<<<"A-pod - Mean", "A-pod - Fitted">>, <<"B-pod - Mean", "B-pod - Fitted">>>>

IN_PER_FT_SQUARED == 144

PERCENT == 100

\* drop("2022-01-07", axis=0).mul(12) on standard deviations kept as squares
StdInches(t) == Mul(Drop(t, {EXCLUDED_2022}), Q(IN_PER_FT_SQUARED, 1))

\* drop("2022-01-07", axis=1).mul(12)
ErrorInches(t) == Mul(Drop(t, {EXCLUDED_2022}), Q(FT_TO_IN, 1))

\* slopes_fit: one row per pod and survey date but 2022-01-07, in percent
slopes_fit(plot, fits) ==
    LET all == [n \in 1..(Len(pods) * NDates(plot)) |->
                   LET i   == ((n - 1) \div NDates(plot)) + 1
                       k   == ((n - 1) % NDates(plot)) + 1
                       fit == fits[i][k]
                       x_slope == fabs(fit[1][1])
                       y_slope == fabs(fit[2][1])
                   IN  [Pod |-> pods[i], Survey_date |-> plot.dates[k],
                        X   |-> fmul(x_slope, Q(PERCENT, 1)),
                        Y   |-> fmul(y_slope, Q(PERCENT, 1)),
                        Max |-> fmul(fadd(fmul(x_slope, x_slope), fmul(y_slope, y_slope)),
                                     Q(PERCENT * PERCENT, 1))]]
    IN  SelectSeq(all, LAMBDA r : r.Survey_date # EXCLUDED_2022)

\* the exception the fitting loop over a table ends with: numpy cannot
\* multiply the empty matrices of a pod without points, and inv may raise on
\* a singular matrix
FitRaises(info, plot, singular, invRaises) ==
    IF NDates(plot) = 0 THEN "none"
    ELSE IF PodRows(info, pods[1]) = <<>> THEN "ValueError"
    ELSE IF singular[1] /\ invRaises THEN "LinAlgError"
    ELSE IF PodRows(info, pods[2]) = <<>> THEN "ValueError"
    ELSE IF singular[2] /\ invRaises THEN "LinAlgError"
    ELSE "none"

calc_plane_error_raises(info, floorPlot, gbPlot, singular, invRaises) ==
    LET floor == FitRaises(info, floorPlot, singular, invRaises)
        gb    == FitRaises(info, gbPlot, singular, invRaises)
    IN  IF floor # "none" THEN floor
        ELSE IF DropRaises(floorPlot, {EXCLUDED_2022}) THEN "KeyError"
        ELSE IF gb # "none" THEN gb
        ELSE IF DropRaises(gbPlot, {EXCLUDED_2022}) THEN "KeyError"
        ELSE "none"

CalcPlaneError ==
    /\ pc = "planned"
    /\ LET singular == Tuple([i \in 1..Len(pods) |-> Singular(beamInfo, pods[i])])
       IN
       \E invRaises \in BOOLEAN :
       \E G \in IF (singular[1] \/ singular[2]) /\ ~invRaises
                THEN SingularInverses ELSE {CHOOSE I \in SingularInverses : TRUE} :
          LET r == calc_plane_error_raises(beamInfo, floorElevPlot, gradeBeamElevPlot,
                                           singular, invRaises)
              solvers   == Tuple([i \in 1..Len(pods) |-> solver(tmp_A(beamInfo, pods[i]), G)])
              meanFloor == error_mean(beamInfo, floorElevPlot)
              fitsFloor == plane_fits(beamInfo, floorElevPlot, solvers)
              fitFloor  == error_fit(beamInfo, floorElevPlot, fitsFloor)
              meanGradeBeam == error_mean(beamInfo, gradeBeamElevPlot)
              fitsGradeBeam == plane_fits(beamInfo, gradeBeamElevPlot, solvers)
              fitGradeBeam  == error_fit(beamInfo, gradeBeamElevPlot, fitsGradeBeam)
          IN  IF r # "none"
              THEN /\ pc' = "aborted"
                   /\ raised' = r
                   /\ UNCHANGED planeVars
              ELSE /\ pc' = "fitted"
                   /\ raised' = "none"
                   /\ error_meanFloor' = ErrorInches(meanFloor)
                   /\ error_fitFloor' = ErrorInches(fitFloor)
                   /\ error_stdFloor' =
                          StdInches(error_std(beamInfo, meanFloor, fitFloor, FloorStdNames))
                   /\ slopes_fitFloor' = slopes_fit(floorElevPlot, fitsFloor)
                   /\ error_meanGradeBeam' = ErrorInches(meanGradeBeam)
                   /\ error_fitGradeBeam' = ErrorInches(fitGradeBeam)
                   /\ error_stdGradeBeam' =
                          StdInches(error_std(beamInfo, meanGradeBeam, fitGradeBeam,
                                              GradeBeamStdNames))
                   /\ slopes_fitGradeBeam' = slopes_fit(gradeBeamElevPlot, fitsGradeBeam)
    /\ UNCHANGED <<inputVars, settleVars, projVars, planVars, diffVars, styleVars>>

----------------------------------------------------------------------------
(* Outputs before the engine that makes them has run.                      *)

NoSettlement ==
    /\ elevation = EmptyTable
    /\ gradeBeamElev = EmptyTable
    /\ gradeBeamElevPlot = EmptyTable
    /\ settlement = EmptyTable
    /\ settlement_delta = EmptyTable
    /\ settlement_rate = EmptyTable

NoProjection ==
    /\ settlementProj = EmptyTable
    /\ settlementProj_trans = EmptyTable
    /\ elevProj = EmptyTable
    /\ elevFloorProj = EmptyTable
    /\ elevGradeBeamProj = EmptyTable

NoPlan ==
    /\ floorElevPlot = EmptyTable
    /\ floorDiff = EmptyTable
    /\ floorSlope = EmptyTable
    /\ gradeBeamDiff = EmptyTable

NoPlaneError ==
    /\ error_meanFloor = EmptyTable
    /\ error_fitFloor = EmptyTable
    /\ error_stdFloor = EmptyTable
    /\ slopes_fitFloor = <<>>
    /\ error_meanGradeBeam = EmptyTable
    /\ error_fitGradeBeam = EmptyTable
    /\ error_stdGradeBeam = EmptyTable
    /\ slopes_fitGradeBeam = <<>>

NoDifferential ==
    /\ beamDiff = EmptyTable
    /\ beamDiffProj = EmptyTable
    /\ beamSlope = EmptyTable
    /\ beamSlopeProj = EmptyTable
    /\ floorDiffElev = EmptyTable
    /\ floorDiffProj = EmptyTable

NoStyles ==
    /\ beamDir = EmptyTable
    /\ beamSymbol = EmptyTable
    /\ beamDiffColor = EmptyTable
    /\ beamSlopeColor = EmptyTable
    /\ beamSlopeProjColor = EmptyTable
    /\ floorDir = EmptyTable
    /\ floorSymbol = EmptyTable
    /\ floorDiffColor = EmptyTable
    /\ gradeBeamDiffColor = EmptyTable
    /\ floorSlopeColor = EmptyTable

----------------------------------------------------------------------------
(* Survey tables of the settlement runs.                                   *)

\* the largest number of survey dates in a table
MaxDates == 5

SurveyCalendar ==
    <<<<2010, 1, 20>>, <<2010, 2, 15>>, <<2010, 11, 2>>, <<2010, 11, 3>>,
      <<2011, 1, 11>>, <<2012, 1, 5>>>>

\* the chronologically ordered sub-sequences of the calendar with n dates
DateLayouts(n) ==
    {KeepPos(SurveyCalendar, keep, 1) :
        keep \in {k \in SUBSET (1..Len(SurveyCalendar)) : Cardinality(k) = n}}

ElevDomain == {NaN, Q(100, 1), Q(9995, 100), Q(998, 10)}

\* a fully surveyed column, except for one date when k > 0
OneGap(n, k) == [i \in 1..n |-> IF i = k THEN NaN ELSE Q(1000 - i, 10)]

SettlePoints == {"A1-1", "B1-1"}

OffsetTable(hasDate, val) ==
    [dates |-> IF hasDate THEN <<SHIM_SURVEY>> ELSE <<<<2016, 12, 1>>>>,
     v     |-> [p \in SettlePoints |-> <<val>>]]

InitSettle ==
    /\ pc = "loaded"
    /\ raised = "none"
    /\ \E n \in {MaxDates - 1, MaxDates} :
       \E lay \in DateLayouts(n) :
       \E col \in [1..n -> ElevDomain] :
       \E k \in {0, 1, n} :
          survey_clean = [dates |-> lay,
                          v     |-> [p \in SettlePoints |->
                                        IF p = "A1-1" THEN col ELSE OneGap(n, k)]]
    /\ \E has \in BOOLEAN : truss_clean = OffsetTable(has, Q(3, 2))
    /\ shim_clean = OffsetTable(TRUE, Q(1, 4))
    /\ beamInfo = <<>>
    /\ nsurvey = DEFAULT_NSURVEY /\ nyears = DEFAULT_NYEARS
    /\ NoSettlement /\ NoProjection /\ NoPlan /\ NoPlaneError /\ NoDifferential
    /\ NoStyles

NextSettle == CalcSettlement

SpecSettle == InitSettle /\ [][NextSettle]_vars

\* the largest number of dates on which one point is left unsurveyed
MaxMissing == 2

\* a steadily settling column with the readings at `gaps` missing
GapColumn(n, step, gaps) ==
    [i \in 1..n |-> IF i \in gaps THEN NaN ELSE Q(10000 - step * i, 100)]

\* survey tables of one more date, whose columns differ in their gaps only
InitGap ==
    /\ pc = "loaded"
    /\ raised = "none"
    /\ \E n \in {MaxDates, MaxDates + 1} :
       \E lay \in DateLayouts(n) :
       \E ga, gb \in {g \in SUBSET (1..n) : Cardinality(g) <= MaxMissing} :
          survey_clean = [dates |-> lay,
                          v     |-> [p \in SettlePoints |->
                                        IF p = "A1-1" THEN GapColumn(n, 5, ga)
                                        ELSE GapColumn(n, 3, gb)]]
    /\ truss_clean = OffsetTable(TRUE, Q(3, 2))
    /\ shim_clean = OffsetTable(TRUE, Q(1, 4))
    /\ beamInfo = <<>>
    /\ nsurvey = DEFAULT_NSURVEY /\ nyears = DEFAULT_NYEARS
    /\ NoSettlement /\ NoProjection /\ NoPlan /\ NoPlaneError /\ NoDifferential
    /\ NoStyles

SpecGap == InitGap /\ [][NextSettle]_vars

\* a calendar in which one survey was entered twice: the two columns of
\* 2011-01-11 differ by a fraction of a second and are 0 days apart
EdgeCalendar ==
    <<<<2010, 1, 20>>, <<2010, 11, 2>>, <<2010, 11, 3>>, <<2011, 1, 11>>,
      <<2011, 1, 11>>, <<2012, 1, 5>>>>

EdgeLayouts(n) ==
    {KeepPos(EdgeCalendar, keep, 1) :
        keep \in {k \in SUBSET (1..Len(EdgeCalendar)) : Cardinality(k) = n}}

EdgeDomain == {NaN, Q(100, 1), Q(9995, 100)}

\* survey tables without any date, and short tables with a repeated date
InitEdge ==
    /\ pc = "loaded"
    /\ raised = "none"
    /\ \E n \in {0, MaxDates - 2, MaxDates - 1} :
       \E lay \in EdgeLayouts(n) :
       \E col \in [1..n -> EdgeDomain] :
          survey_clean = [dates |-> lay,
                          v     |-> [p \in SettlePoints |->
                                        IF p = "A1-1" THEN col ELSE OneGap(n, 0)]]
    /\ \E has \in BOOLEAN : truss_clean = OffsetTable(has, Q(3, 2))
    /\ shim_clean = OffsetTable(TRUE, Q(1, 4))
    /\ beamInfo = <<>>
    /\ nsurvey = DEFAULT_NSURVEY /\ nyears = DEFAULT_NYEARS
    /\ NoSettlement /\ NoProjection /\ NoPlan /\ NoPlaneError /\ NoDifferential
    /\ NoStyles

SpecEdge == InitEdge /\ [][NextSettle]_vars

----------------------------------------------------------------------------
(* Reference and survey tables of the differential runs.                   *)

\* number of survey dates in the table
DiffDates == 2

DiffCalendar ==
    <<<<2017, 12, 1>>, <<2022, 1, 7>>, <<2022, 12, 30>>, <<2023, 12, 9>>>>

\* the last survey of the forecast window and the first forecast date
DiffProjDates ==
    LET kept == SelectSeq(SubSeq(DiffCalendar, 1, DiffDates), LAMBDA d : d # EXCLUDED_2022)
    IN  <<kept[Len(kept)], <<year(kept[Len(kept)]) + 1, 1, 1>>>>

BeamRow(ws, en, name, len, mp, beam, dir) ==
    [MP_W_S |-> ws, MP_E_N |-> en, beamName |-> name, beamLength |-> len,
     mpX |-> mp[1], mpY |-> mp[2], beamX |-> beam[1], beamY |-> beam[2],
     beamDir |-> dir]

\* two beams in a row, A1-1 to A1-2 to B1-1; the last row carries the
\* position of B1-1 only, when the file has it
RefTable(located) ==
    <<BeamRow("A1-1", "A1-2", "A1", Q(10, 1), <<Q(0, 1), Q(0, 1)>>,
              <<Q(5, 1), Q(0, 1)>>, "h"),
      BeamRow("A1-2", "B1-1", "A2", Q(25, 1), <<Q(10, 1), Q(0, 1)>>,
              <<Q(10, 1), Q(12, 1)>>, "v"),
      BeamRow("B1-1", NoLabel, NoLabel, NaN,
              IF located THEN <<Q(10, 1), Q(25, 1)>> ELSE <<NaN, NaN>>,
              <<NaN, NaN>>, NoLabel)>>

LugDomain == {NaN, Q(99, 1), Q(100, 1)}

ProjTable(dates, a, b, c) ==
    [dates |-> dates,
     v     |-> ("A1-1" :> [i \in 1..Len(dates) |-> a]
                @@ "A1-2" :> [i \in 1..Len(dates) |-> b]
                @@ "B1-1" :> [i \in 1..Len(dates) |-> c])]

\* a forecast has the columns of the table it is made from
OnPoints(t, points) == [dates |-> t.dates, v |-> [p \in points |-> t.v[p]]]

InitDiff ==
    /\ pc = "forecast_elevation"
    /\ raised = "none"
    /\ \E located \in BOOLEAN : beamInfo = RefTable(located)
    /\ \E a \in [1..DiffDates -> LugDomain] :
       \E b \in [1..DiffDates -> LugDomain \ {NaN}] \cup {[i \in 1..DiffDates |-> NaN]} :
       \E known \in BOOLEAN :
          survey_clean =
              [dates |-> SubSeq(DiffCalendar, 1, DiffDates),
               v     |-> IF known
                         THEN ("A1-1" :> a @@ "A1-2" :> b
                               @@ "B1-1" :> [i \in 1..DiffDates |-> Q(199, 2)])
                         ELSE ("A1-1" :> a @@ "A1-2" :> b)]
    /\ truss_clean = [dates |-> SubSeq(DiffCalendar, 1, 2),
                      v     |-> ("A1-1" :> <<Q(3, 2), Q(3, 2)>>
                                 @@ "A1-2" :> <<Q(5, 4), Q(5, 4)>>
                                 @@ "B1-1" :> <<Q(1, 1), Q(1, 1)>>)]
    /\ shim_clean = [dates |-> <<SHIM_SURVEY>>,
                     v     |-> [p \in {"A1-1", "A1-2", "B1-1"} |-> <<Q(1, 4)>>]]
    /\ elevation = survey_clean
    /\ gradeBeamElev = calc_gradeBeamElev(survey_clean, truss_clean, shim_clean)
    /\ gradeBeamElevPlot = LocatedJoin(beamInfo, gradeBeamElev)
    /\ settlement = calc_cumulative(survey_clean)
    /\ settlement_delta = EmptyTable
    /\ settlement_rate = EmptyTable
    /\ nsurvey = DEFAULT_NSURVEY /\ nyears = DEFAULT_NYEARS
    /\ \E up \in BOOLEAN :
          /\ settlementProj =
                OnPoints(IF up THEN ProjTable(DiffProjDates, Q(1, 2), Q(2, 5), Q(3, 5))
                         ELSE ProjTable(DiffProjDates, Q(2, 5), Q(1, 2), NaN),
                         Rows(survey_clean))
          /\ elevProj =
                OnPoints(IF up THEN ProjTable(DiffProjDates, Q(199, 2), Q(397, 4), Q(99, 1))
                         ELSE ProjTable(DiffProjDates, Q(99, 1), Q(399, 4), Q(100, 1)),
                         Rows(survey_clean))
    /\ settlementProj_trans = DropFirstDate(settlementProj)
    /\ elevFloorProj = calc_elevFloorProj(elevProj, truss_clean)
    /\ elevGradeBeamProj = calc_elevGradeBeamProj(elevProj)
    /\ NoPlan /\ NoPlaneError /\ NoDifferential
    /\ NoStyles

NextDiff ==
    \/ CalcPlanDataframe
    \/ CalcPlaneError
    \/ CalcDifferentalSettlement
    \/ PlotBeamStyles
    \/ PlotFloorStyles

SpecDiff == InitDiff /\ [][NextDiff]_vars

----------------------------------------------------------------------------
(* Reference and survey tables of the style runs: lug elevations a few     *)
(* 192ths of a foot apart, on a beam of 8 ft and on one of half a foot.    *)

StyleLengths == {Q(1, 2), Q(8, 1)}

\* the reference file of RefTable with beam A1 of the given length
StyleRefTable(len) ==
    <<BeamRow("A1-1", "A1-2", "A1", len, <<Q(0, 1), Q(0, 1)>>,
              <<Q(5, 1), Q(0, 1)>>, "h"),
      BeamRow("A1-2", "B1-1", "A2", Q(25, 1), <<Q(10, 1), Q(0, 1)>>,
              <<Q(10, 1), Q(12, 1)>>, "v"),
      BeamRow("B1-1", NoLabel, NoLabel, NaN, <<Q(10, 1), Q(25, 1)>>,
              <<NaN, NaN>>, NoLabel)>>

\* steps of 1/192 ft, 1/16 in
StyleSteps == {0, 1, 4, 8, 16}

StyleLugs == {NaN} \cup {Q(19200 + k, 192) : k \in StyleSteps}

InitStyle ==
    /\ pc = "forecast_elevation"
    /\ raised = "none"
    /\ \E len \in StyleLengths : beamInfo = StyleRefTable(len)
    /\ \E a \in [1..DiffDates -> StyleLugs] :
       \E b \in {Q(19200, 192), Q(19204, 192)} :
          survey_clean =
              [dates |-> SubSeq(DiffCalendar, 1, DiffDates),
               v     |-> ("A1-1" :> a @@ "A1-2" :> [i \in 1..DiffDates |-> b]
                          @@ "B1-1" :> [i \in 1..DiffDates |-> Q(199, 2)])]
    /\ truss_clean = [dates |-> SubSeq(DiffCalendar, 1, 2),
                      v     |-> ("A1-1" :> <<Q(3, 2), Q(3, 2)>>
                                 @@ "A1-2" :> <<Q(3, 2), Q(3, 2)>>
                                 @@ "B1-1" :> <<Q(1, 1), Q(1, 1)>>)]
    /\ shim_clean = [dates |-> <<SHIM_SURVEY>>,
                     v     |-> [p \in {"A1-1", "A1-2", "B1-1"} |-> <<Q(1, 4)>>]]
    /\ elevation = survey_clean
    /\ gradeBeamElev = calc_gradeBeamElev(survey_clean, truss_clean, shim_clean)
    /\ gradeBeamElevPlot = LocatedJoin(beamInfo, gradeBeamElev)
    /\ settlement = calc_cumulative(survey_clean)
    /\ settlement_delta = EmptyTable
    /\ settlement_rate = EmptyTable
    /\ nsurvey = DEFAULT_NSURVEY /\ nyears = DEFAULT_NYEARS
    /\ \E k \in StyleSteps \ {0} :
          /\ settlementProj = ProjTable(DiffProjDates, Q(k, 192), Q(0, 1), Q(3, 5))
          /\ elevProj = ProjTable(DiffProjDates, Q(19200 - k, 192), Q(100, 1), Q(99, 1))
    /\ settlementProj_trans = DropFirstDate(settlementProj)
    /\ elevFloorProj = calc_elevFloorProj(elevProj, truss_clean)
    /\ elevGradeBeamProj = calc_elevGradeBeamProj(elevProj)
    /\ NoPlan /\ NoPlaneError /\ NoDifferential
    /\ NoStyles

SpecStyle == InitStyle /\ [][NextDiff]_vars

----------------------------------------------------------------------------
(* Reference and survey tables of the plane-fit runs.                      *)

\* number of survey dates in the table
PlaneDates == 3

PlaneCalendar == <<<<2017, 12, 1>>, <<2022, 1, 7>>, <<2023, 1, 5>>, <<2024, 1, 9>>>>

\* pod A stands on the corners of a unit square; pod B on three points that
\* are in line when the last is moved
PodTable(inLine) ==
    <<BeamRow("A1-1", "A1-2", "A1", Q(1, 1), <<Q(0, 1), Q(0, 1)>>,
              <<Q(1, 2), Q(0, 1)>>, "h"),
      BeamRow("A1-2", "A2-2", "A2", Q(1, 1), <<Q(1, 1), Q(0, 1)>>,
              <<Q(1, 1), Q(1, 2)>>, "v"),
      BeamRow("A2-1", "A2-2", "A3", Q(1, 1), <<Q(0, 1), Q(1, 1)>>,
              <<Q(1, 2), Q(1, 1)>>, "h"),
      BeamRow("A2-2", NoLabel, NoLabel, NaN, <<Q(1, 1), Q(1, 1)>>, <<NaN, NaN>>, NoLabel),
      BeamRow("B1-1", "B1-2", "B1", Q(2, 1), <<Q(0, 1), Q(0, 1)>>,
              <<Q(1, 1), Q(0, 1)>>, "h"),
      BeamRow("B1-2", NoLabel, NoLabel, NaN, <<Q(2, 1), Q(0, 1)>>, <<NaN, NaN>>, NoLabel),
      BeamRow("B2-1", NoLabel, NoLabel, NaN,
              IF inLine THEN <<Q(4, 1), Q(0, 1)>> ELSE <<Q(0, 1), Q(1, 1)>>,
              <<NaN, NaN>>, NoLabel)>>

PodAPoints == <<"A1-1", "A1-2", "A2-1", "A2-2">>

\* the elevation of the plane z = 2x + 3y + 1 at the points of pod A
OnPlane == <<Q(1, 1), Q(3, 1), Q(4, 1), Q(6, 1)>>

PodBElev == ("B1-1" :> Q(5, 1) @@ "B1-2" :> Q(7, 1) @@ "B2-1" :> Q(6, 1))

\* a reading of pod A: missing, on the plane, or one foot above it
Readings == {"missing", "on", "above"}

InitPlane ==
    /\ pc = "forecast_elevation"
    /\ raised = "none"
    /\ \E inLine \in BOOLEAN : beamInfo = PodTable(inLine)
    /\ nsurvey = 2 /\ nyears = 1
    /\ \E first \in [1..Len(PodAPoints) -> Readings] :
          survey_clean =
             [dates |-> SubSeq(PlaneCalendar, 1, PlaneDates),
              v     |-> [p \in Range(PodAPoints) \cup DOMAIN PodBElev |->
                            [k \in 1..PlaneDates |->
                                IF p \in DOMAIN PodBElev THEN PodBElev[p]
                                ELSE LET i == PosOf(PodAPoints, p)
                                     IN  IF k > 1 \/ first[i] = "on" THEN OnPlane[i]
                                         ELSE IF first[i] = "above"
                                              THEN fadd(OnPlane[i], Q(1, 1))
                                         ELSE NaN]]]
    /\ truss_clean = [dates |-> survey_clean.dates,
                      v     |-> [p \in Rows(survey_clean) |->
                                    [k \in 1..PlaneDates |-> Q(0, 1)]]]
    /\ shim_clean = [dates |-> <<SHIM_SURVEY>>,
                     v     |-> [p \in Rows(survey_clean) |-> <<Q(0, 1)>>]]
    /\ elevation = survey_clean
    /\ gradeBeamElev = calc_gradeBeamElev(survey_clean, truss_clean, shim_clean)
    /\ gradeBeamElevPlot = LocatedJoin(beamInfo, gradeBeamElev)
    /\ settlement = calc_cumulative(survey_clean)
    /\ settlement_delta = EmptyTable
    /\ settlement_rate = EmptyTable
    /\ settlementProj = Forecast(settlement, nsurvey, nyears)
    /\ settlementProj_trans = DropFirstDate(settlementProj)
    /\ elevProj = Forecast(elevation, nsurvey, nyears)
    /\ elevFloorProj = calc_elevFloorProj(elevProj, truss_clean)
    /\ elevGradeBeamProj = calc_elevGradeBeamProj(elevProj)
    /\ NoPlan /\ NoPlaneError /\ NoDifferential
    /\ NoStyles

NextPlane == CalcPlanDataframe \/ CalcPlaneError

SpecPlane == InitPlane /\ [][NextPlane]_vars

----------------------------------------------------------------------------
(* Tables of the forecast runs.                                            *)

\* the largest forecast horizon
MaxYears == 2

ForecastCalendar ==
    <<<<2018, 6, 15>>, <<2018, 9, 23>>, <<2019, 1, 1>>, <<2022, 1, 7>>, <<2023, 1, 5>>>>

ForecastLayouts(n) ==
    {KeepPos(ForecastCalendar, keep, 1) :
        keep \in {k \in SUBSET (1..Len(ForecastCalendar)) : Cardinality(k) = n}}

ReadingDomain == {NaN, Q(1, 16), Q(10, 1), Q(11, 1)}

ForecastPoints == {"A1-1", "B1-1"}

InitForecast ==
    /\ pc = "settled"
    /\ raised = "none"
    /\ beamInfo = <<>>
    /\ nsurvey \in 1..3
    /\ nyears \in 1..MaxYears
    /\ \E n \in {MaxDates - 2, MaxDates - 1} :
       \E lay \in ForecastLayouts(n) :
       \E col \in [1..n -> ReadingDomain] :
          survey_clean = [dates |-> lay,
                          v     |-> [p \in ForecastPoints |->
                                        IF p = "A1-1" THEN col
                                        ELSE [i \in 1..n |-> Q(200 - i * i, 2)]]]
    /\ truss_clean = [dates |-> <<SHIM_SURVEY>>,
                      v     |-> [p \in ForecastPoints |-> <<Q(3, 2)>>]]
    /\ shim_clean = [dates |-> <<SHIM_SURVEY>>,
                     v     |-> [p \in ForecastPoints |-> <<Q(1, 4)>>]]
    /\ elevation = survey_clean
    /\ gradeBeamElev = calc_gradeBeamElev(survey_clean, truss_clean, shim_clean)
    /\ gradeBeamElevPlot = LocatedJoin(beamInfo, gradeBeamElev)
    /\ settlement = calc_cumulative(survey_clean)
    /\ settlement_delta = EmptyTable
    /\ settlement_rate = EmptyTable
    /\ NoProjection /\ NoPlan /\ NoPlaneError /\ NoDifferential
    /\ NoStyles

NextForecast == CalcForecastSettlement \/ CalcForecastElevation

SpecForecast == InitForecast /\ [][NextForecast]_vars

----------------------------------------------------------------------------
(* The handler of the Compute Settlement button (src/spss.py): the script  *)
(* reads the sidebar inputs and the files, calls the engines one after the *)
(* other and then builds and shows the charts.  A new press runs the       *)
(* script again from the start, with fresh tables.                         *)

RunCalendar ==
    <<<<2010, 11, 2>>, <<2010, 11, 3>>, <<2017, 12, 1>>, <<2017, 12, 11>>, <<2022, 1, 7>>>>

RunLugs == {Q(100, 1), Q(199, 2)}

\* nothing is read before the button is pressed
NoInputs ==
    /\ survey_clean = EmptyTable
    /\ truss_clean = EmptyTable
    /\ shim_clean = EmptyTable
    /\ beamInfo = <<>>

InitRun ==
    /\ pc = "idle"
    /\ raised = "none"
    /\ nsurvey = DEFAULT_NSURVEY /\ nyears = DEFAULT_NYEARS
    /\ NoInputs
    /\ NoSettlement /\ NoProjection /\ NoPlan /\ NoPlaneError /\ NoDifferential
    /\ NoStyles

\* faulty variant: the charts are built as soon as the planes are fitted
ShowCharts_early ==
    /\ pc = "fitted"
    /\ pc' = "shown"
    /\ UNCHANGED <<raised, inputVars, settleVars, projVars, planVars, planeVars, diffVars,
                   styleVars>>

\* st.sidebar.button('Compute Settlement'): read the inputs
Compute ==
    /\ pc \in {"idle", "shown", "aborted"}
    /\ pc' = "loaded"
    /\ raised' = "none"
    /\ nsurvey' \in {2, DEFAULT_NSURVEY}
    /\ nyears' \in {1, 2}
    /\ \E a \in [1..Len(RunCalendar) -> RunLugs] :
          survey_clean' =
              [dates |-> RunCalendar,
               v     |-> ("A1-1" :> a
                          @@ "A1-2" :> [i \in 1..Len(RunCalendar) |-> Q(100, 1)]
                          @@ "B1-1" :> [i \in 1..Len(RunCalendar) |-> Q(199, 2)])]
    /\ truss_clean' = [dates |-> <<SHIM_SURVEY, EXCLUDED_2022>>,
                       v     |-> ("A1-1" :> <<Q(3, 2), Q(3, 2)>>
                                  @@ "A1-2" :> <<Q(5, 4), Q(5, 4)>>
                                  @@ "B1-1" :> <<Q(1, 1), Q(1, 1)>>)]
    /\ shim_clean' = [dates |-> <<SHIM_SURVEY>>,
                      v     |-> [p \in {"A1-1", "A1-2", "B1-1"} |-> <<Q(1, 4)>>]]
    /\ beamInfo' = RefTable(TRUE)
    /\ elevation' = EmptyTable
    /\ gradeBeamElev' = EmptyTable
    /\ gradeBeamElevPlot' = EmptyTable
    /\ settlement' = EmptyTable
    /\ settlement_delta' = EmptyTable
    /\ settlement_rate' = EmptyTable
    /\ settlementProj' = EmptyTable
    /\ settlementProj_trans' = EmptyTable
    /\ elevProj' = EmptyTable
    /\ elevFloorProj' = EmptyTable
    /\ elevGradeBeamProj' = EmptyTable
    /\ floorElevPlot' = EmptyTable
    /\ floorDiff' = EmptyTable
    /\ floorSlope' = EmptyTable
    /\ gradeBeamDiff' = EmptyTable
    /\ error_meanFloor' = EmptyTable
    /\ error_fitFloor' = EmptyTable
    /\ error_stdFloor' = EmptyTable
    /\ slopes_fitFloor' = <<>>
    /\ error_meanGradeBeam' = EmptyTable
    /\ error_fitGradeBeam' = EmptyTable
    /\ error_stdGradeBeam' = EmptyTable
    /\ slopes_fitGradeBeam' = <<>>
    /\ beamDiff' = EmptyTable
    /\ beamDiffProj' = EmptyTable
    /\ beamSlope' = EmptyTable
    /\ beamSlopeProj' = EmptyTable
    /\ floorDiffElev' = EmptyTable
    /\ floorDiffProj' = EmptyTable
    /\ beamDir' = EmptyTable
    /\ beamSymbol' = EmptyTable
    /\ beamDiffColor' = EmptyTable
    /\ beamSlopeColor' = EmptyTable
    /\ beamSlopeProjColor' = EmptyTable
    /\ floorDir' = EmptyTable
    /\ floorSymbol' = EmptyTable
    /\ floorDiffColor' = EmptyTable
    /\ gradeBeamDiffColor' = EmptyTable
    /\ floorSlopeColor' = EmptyTable

\* the figures are built and st.subheader, st.plotly_chart show them
ShowCharts ==
    /\ pc = "floor_styled"
    /\ pc' = "shown"
    /\ UNCHANGED <<raised, inputVars, settleVars, projVars, planVars, planeVars, diffVars,
                   styleVars>>

NextRun ==
    \/ Compute
    \/ CalcSettlement
    \/ CalcForecastSettlement
    \/ CalcForecastElevation
    \/ CalcPlanDataframe
    \/ CalcPlaneError
    \/ CalcDifferentalSettlement
    \/ PlotBeamStyles
    \/ PlotFloorStyles
    \/ ShowCharts

SpecRun == InitRun /\ [][NextRun]_vars

----------------------------------------------------------------------------
(* Properties of the settlement engine.                                    *)

\* position of the first non-missing cell of a column, 0 when there is none
FirstValid(col) ==
    IF \A i \in 1..Len(col) : IsNaN(col[i]) THEN 0
    ELSE CHOOSE i \in 1..Len(col) :
            ~IsNaN(col[i]) /\ \A j \in 1..(i - 1) : IsNaN(col[j])

\* the survey dates that are not dropped before differencing
Retained(dates) == SelectSeq(dates, LAMBDA d : d \notin EXCLUDED_2010)

\* C1: the settlement of every monitor point that has a reading is exactly 0
\* at the point's first non-missing survey date, whatever the first dates of
\* the other points are.
C1_SettlementZeroAtFirstReading ==
    pc = "settled" =>
        \A p \in Rows(survey_clean) :
            FirstValid(survey_clean.v[p]) # 0 =>
                settlement.v[p][FirstValid(survey_clean.v[p])] = <<0, 1>>

\* two points whose first readings are on different dates
C1_Witness ==
    /\ pc = "settled"
    /\ FirstValid(survey_clean.v["A1-1"]) = 3
    /\ FirstValid(survey_clean.v["B1-1"]) = 1
    /\ settlement.v["B1-1"][3] # <<0, 1>>

\* the readings and results of scenario 1 at the retained dates of point p
Scenario1At(p) ==
    LET keep == Retained(survey_clean.dates)
    IN  /\ Len(keep) = 3
        /\ \A i \in 1..NDates(survey_clean) :
              survey_clean.dates[i] \in EXCLUDED_2010 => IsNaN(survey_clean.v[p][i])
        /\ [i \in 1..3 |-> At(survey_clean, p, keep[i])]
              = <<<<100, 1>>, <<1999, 20>>, <<499, 5>>>>

\* C2: at every non-excluded survey date after the first, Delta is 12 times
\* the settlement at that date minus the settlement at the previous
\* non-excluded date, and Delta at the first row is missing; elevations
\* [100.00, 99.95, 99.80] ft give settlements [0.00, 0.05, 0.20] ft and deltas
\* [missing, 0.6, 1.8] in.
C2_DeltaIsTwelveTimesDifference ==
    pc = "settled" =>
        LET keep == Retained(survey_clean.dates)
        IN  /\ settlement_delta.dates = keep
            /\ \A p \in Rows(survey_clean) :
                  /\ Len(keep) > 0 => IsNaN(settlement_delta.v[p][1])
                  /\ \A i \in 2..Len(keep) :
                        settlement_delta.v[p][i] =
                            fmul(<<12, 1>>, fsub(At(settlement, p, keep[i]),
                                                 At(settlement, p, keep[i - 1])))
                  /\ Scenario1At(p) =>
                        /\ [i \in 1..3 |-> At(settlement, p, keep[i])]
                              = <<<<0, 1>>, <<1, 20>>, <<1, 5>>>>
                        /\ settlement_delta.v[p] = <<NaN, <<3, 5>>, <<9, 5>>>>

C2_Witness == pc = "settled" /\ Scenario1At("A1-1")

\* the survey table with the reading of point q on the i-th date removed
WithoutReading(survey, q, i) == [survey EXCEPT !.v[q][i] = NaN]

\* removing a reading of one point changes the Delta of no other point
DeltaOfOthersUnchanged ==
    \A p \in Rows(survey_clean) : \A q \in Rows(survey_clean) \ {p} :
        \A i \in 1..NDates(survey_clean) :
            calc_delta(calc_cumulative(WithoutReading(survey_clean, q, i))).v[p]
                = settlement_delta.v[p]

\* point p is missing on the m-th date of `dates` only, and m is not an end
MissingOnlyAt(t, dates, p, m) ==
    /\ 1 < m /\ m < Len(dates)
    /\ \A i \in 1..Len(dates) : IsNaN(At(t, p, dates[i])) <=> i = m

\* C8 as stated, over the dates of the survey table: a point missing on
\* exactly one survey date has Delta missing at that date and at the
\* immediately following survey date and defined at the other dates after
\* the first row of Delta, and no other point's Delta changes.
C8_AsStated ==
    pc = "settled" =>
        LET all == survey_clean.dates
        IN  /\ DeltaOfOthersUnchanged
            /\ \A p \in Rows(survey_clean) : \A m \in 1..Len(all) :
                  MissingOnlyAt(survey_clean, all, p, m) =>
                      /\ IsNaN(At(settlement_delta, p, all[m]))
                      /\ IsNaN(At(settlement_delta, p, all[m + 1]))
                      /\ \A i \in 1..Len(all) :
                            (/\ i \notin {m, m + 1}
                             /\ all[i] \notin EXCLUDED_2010
                             /\ all[i] # settlement_delta.dates[1])
                                => ~IsNaN(At(settlement_delta, p, all[i]))

\* C8: a point missing on exactly one non-excluded survey date, present on
\* the adjacent non-excluded dates, has Delta missing at that date and at the
\* next non-excluded date and defined at every other non-excluded date after
\* the first; no other point's Delta changes.
C8_MissingReadingBlanksTwoDeltas ==
    pc = "settled" =>
        LET keep == Retained(survey_clean.dates)
        IN  /\ DeltaOfOthersUnchanged
            /\ \A p \in Rows(survey_clean) : \A m \in 1..Len(keep) :
                  MissingOnlyAt(survey_clean, keep, p, m) =>
                      \A i \in 2..Len(keep) :
                          IsNaN(settlement_delta.v[p][i]) <=> i \in {m, m + 1}

C8_Witness ==
    /\ pc = "settled"
    /\ MissingOnlyAt(survey_clean, Retained(survey_clean.dates), "A1-1", 2)
    /\ Len(settlement_delta.dates) = 4
    /\ IsNaN(settlement_delta.v["A1-1"][3])
    /\ ~IsNaN(settlement_delta.v["A1-1"][4])
    /\ ~IsNaN(settlement_delta.v["B1-1"][3])

\* days between the i-th retained survey and the one before it
Elapsed(keep, i) == toordinal(keep[i]) - toordinal(keep[i - 1])

\* C11 as stated: when two consecutive retained surveys are 0 days apart the
\* rate of that row is missing for every point, and the rate of every other
\* row is Delta / elapsed days x 365 (to 3 decimals).
C11_AsStated ==
    pc = "settled" =>
        LET keep == Retained(survey_clean.dates)
        IN  \A p \in Rows(survey_clean) : \A i \in 2..Len(keep) :
                IF Elapsed(keep, i) = 0
                THEN IsNaN(settlement_rate.v[p][i])
                ELSE settlement_rate.v[p][i] =
                         fround(fmul(fdiv(settlement_delta.v[p][i],
                                          Q(Elapsed(keep, i), 1)),
                                     Q(365, 1)), 3)

AllMissing(col) == \A i \in 1..Len(col) : IsNaN(col[i])

\* the survey table without the row of monitor point p
WithoutPoint(survey, p) ==
    [dates |-> survey.dates, v |-> [q \in Rows(survey) \ {p} |-> survey.v[q]]]

\* C12: a monitor point without any reading has settlement, delta and rate
\* missing on every date, never zero, and neither the columns of the other
\* points nor the outcome of the call depend on its presence.
C12_UnsurveyedPointStaysMissing ==
    \A p \in Rows(survey_clean) :
        AllMissing(survey_clean.v[p]) =>
            LET rest  == WithoutPoint(survey_clean, p)
                delta == calc_delta(calc_cumulative(rest))
            IN  /\ calc_settlement_raises(survey_clean, truss_clean, shim_clean)
                      <=> calc_settlement_raises(rest, truss_clean, shim_clean)
                /\ pc = "settled" =>
                      /\ AllMissing(settlement.v[p])
                      /\ AllMissing(settlement_delta.v[p])
                      /\ AllMissing(settlement_rate.v[p])
                      /\ \A q \in Rows(rest) :
                            /\ settlement.v[q] = calc_cumulative(rest).v[q]
                            /\ settlement_delta.v[q] = delta.v[q]
                            /\ settlement_rate.v[q] = calc_rate(delta).v[q]

C12_Witness ==
    /\ pc = "settled"
    /\ AllMissing(survey_clean.v["A1-1"])
    /\ NDates(settlement) = MaxDates
    /\ NDates(settlement_rate) >= 3
    /\ IsNaN(settlement.v["A1-1"][1])
    /\ settlement.v["B1-1"][2] = Q(1, 10)
    /\ IsNum(settlement_rate.v["B1-1"][2])

\* C16 as stated: the settlement computation on a survey table with no
\* rows (no survey date) returns empty settlement, delta and rate tables and
\* raises no exception.
C16_AsStated ==
    (NDates(survey_clean) = 0 /\ pc # "loaded") =>
        /\ pc = "settled"
        /\ raised = "none"
        /\ NDates(settlement) = 0
        /\ NDates(settlement_delta) = 0
        /\ NDates(settlement_rate) = 0

\* the set of dates of a sequence of dates
DateSet(dates) == {dates[i] : i \in 1..Len(dates)}

IsLugLessOffset(t, lug) ==
    /\ t.dates = lug.dates
    /\ Rows(t) = Rows(lug)
    /\ \A p \in Rows(lug) : \A i \in 1..NDates(lug) :
          t.v[p][i] = fsub(lug.v[p][i], Q(1131, 100))

\* C22 as stated: the grade beam elevation of every monitor point is its lug
\* elevation minus 11.31 ft, in the historical table of calc_settlement and
\* in the projected table of calc_forecast_elevation.
C22_AsStated ==
    /\ pc = "settled" => IsLugLessOffset(gradeBeamElev, survey_clean)
    /\ pc = "forecast_elevation" => IsLugLessOffset(elevGradeBeamProj, elevProj)

\* the projected table alone is the projected lug elevation less 11.31 ft
ProjectedGradeBeamIsLugLessOffset ==
    pc = "forecast_elevation" => IsLugLessOffset(elevGradeBeamProj, elevProj)

----------------------------------------------------------------------------
(* Properties of the differential and slope engine.                        *)

\* the reference file with the two ends of every beam exchanged, the
\* positions of the monitor points kept in rows of their own
SwapEnds(info) ==
    [i \in 1..(2 * Len(info)) |->
        IF i <= Len(info)
        THEN [info[i] EXCEPT !.MP_W_S = info[i].MP_E_N, !.MP_E_N = info[i].MP_W_S,
                             !.mpX = NaN, !.mpY = NaN]
        ELSE [info[i - Len(info)] EXCEPT !.MP_E_N = NoLabel, !.beamName = NoLabel,
                                         !.beamLength = NaN, !.beamX = NaN,
                                         !.beamY = NaN]]

\* table b is table a with every cell negated
Negated(a, b) ==
    /\ a.dates = b.dates /\ Rows(a) = Rows(b)
    /\ \A r \in Rows(a) : \A i \in 1..NDates(a) : b.v[r][i] = fneg(a.v[r][i])

\* the signed differential tables change sign when the ends are exchanged
SignedTablesAntisymmetric ==
    LET swapped == SwapEnds(beamInfo)
    IN  /\ Negated(beamDiff, calc_beamDiff(swapped, survey_clean))
        /\ Negated(beamDiffProj, calc_beamDiffProj(swapped, settlementProj_trans))
        /\ Negated(floorDiff, calc_floorDiff(swapped, survey_clean, truss_clean))
        /\ Negated(gradeBeamDiff, calc_gradeBeamDiff(swapped, gradeBeamElev))

SwappedFloorDiffElev ==
    calc_floorDiffElev(SwapEnds(beamInfo),
                       calc_floorElevPlot(SwapEnds(beamInfo), survey_clean, truss_clean),
                       elevFloorProj)

SwappedFloorDiffProj == calc_floorDiffProj(SwapEnds(beamInfo), elevFloorProj)

\* C3 as stated: every differential table, the floor tables of
\* calc_differental_settlement included, changes sign when the two ends of
\* the pairs are exchanged.
C3_AsStated ==
    pc = "differenced" =>
        /\ SignedTablesAntisymmetric
        /\ Negated(floorDiffElev, SwappedFloorDiffElev)
        /\ Negated(floorDiffProj, SwappedFloorDiffProj)

\* C3: the lug, projected, floor and grade-beam differentials (beamDiff,
\* beamDiffProj, floorDiff, gradeBeamDiff) are antisymmetric under exchanging
\* the two ends of the pairs; floorDiffElev and floorDiffProj are absolute
\* values, the same for both orders of the ends.
C3_SignedDifferentialsAntisymmetric ==
    pc = "differenced" =>
        /\ SignedTablesAntisymmetric
        /\ floorDiffElev = SwappedFloorDiffElev
        /\ floorDiffProj = SwappedFloorDiffProj
        /\ floorDiffProj = AbsTable(floorDiffProj)

C3_Witness ==
    /\ pc = "differenced"
    /\ beamDiff.v["A1"][1] = <<12, 1>>
    /\ calc_beamDiff(SwapEnds(beamInfo), survey_clean).v["A1"][1] = <<-12, 1>>
    /\ floorDiffProj.v["A1"][1] = <<6, 1>>
    /\ SwappedFloorDiffProj.v["A1"][1] = <<6, 1>>

\* the length of beam b in the reference file, missing when it has none
LengthOf(info, b) ==
    IF \E i \in 1..Len(info) : info[i].beamName = b /\ ~IsNaN(info[i].beamLength)
    THEN info[CHOOSE i \in 1..Len(info) :
                 info[i].beamName = b /\ ~IsNaN(info[i].beamLength)].beamLength
    ELSE NaN

\* slope x length of the pair = differential, cell by cell
SlopeTimesLength(slope, diff) ==
    /\ slope.dates = diff.dates
    /\ \A b \in Rows(slope) : \A i \in 1..NDates(slope) :
          fmul(slope.v[b][i], LengthOf(beamInfo, b)) = JoinRow(diff, b)[i]

\* the reference file with the length of beam b multiplied by k
ScaleLength(info, b, k) ==
    [i \in 1..Len(info) |->
        IF info[i].beamName = b
        THEN [info[i] EXCEPT !.beamLength = fmul(info[i].beamLength, k)]
        ELSE info[i]]

\* table b is table a with row r divided by k and the other rows unchanged
RowScaled(a, b, r, k) ==
    /\ a.dates = b.dates /\ Rows(a) = Rows(b)
    /\ \A x \in Rows(a) : \A i \in 1..NDates(a) :
          b.v[x][i] = IF x = r THEN fdiv(a.v[x][i], k) ELSE a.v[x][i]

ScaleFactors == {Q(2, 1), Q(1, 2), Q(3, 1)}

\* C4: for every beam pair and date Slope = Differential / length of that
\* pair, sign preserved; multiplying the length of one pair by k > 0 divides
\* the slopes of that pair by k and leaves the other pairs unchanged.
C4_SlopeIsDifferentialOverLength ==
    pc = "differenced" =>
        /\ SlopeTimesLength(beamSlope, beamDiff)
        /\ SlopeTimesLength(beamSlopeProj, beamDiffProj)
        /\ SlopeTimesLength(floorSlope, floorDiff)
        /\ \A b \in BeamNames(beamLength_long(beamInfo)) : \A k \in ScaleFactors :
              LET scaled == ScaleLength(beamInfo, b, k)
              IN  /\ RowScaled(beamSlope, calc_beamSlope(scaled, survey_clean), b, k)
                  /\ RowScaled(beamSlopeProj,
                               calc_beamSlopeProj(scaled, settlementProj_trans), b, k)
                  /\ RowScaled(floorSlope,
                               calc_floorSlope(scaled, survey_clean, truss_clean), b, k)

C4_Witness ==
    /\ pc = "differenced"
    /\ beamDiff.v["A2"][1] = <<-6, 1>>
    /\ beamSlope.v["A2"][1] = <<-6, 25>>
    /\ calc_beamSlope(ScaleLength(beamInfo, "A2", Q(3, 1)), survey_clean).v["A2"][1]
          = <<-2, 25>>

\* the pairs of length 10 ft whose ends, in the order (MP_W_S, MP_E_N) of the
\* reference file, have the lug elevations (ws, en) on the i-th date
Scenario2At(r, i, ws, en) ==
    /\ r.beamName # NoLabel
    /\ r.beamLength = <<10, 1>>
    /\ JoinRow(survey_clean, r.MP_W_S)[i] = ws
    /\ JoinRow(survey_clean, r.MP_E_N)[i] = en

\* C7 as stated: a pair of length 10 ft with end elevations [100.0, 99.0]
\* has differential -12 in and slope -1.2 in/ft.
C7_AsStated ==
    pc = "differenced" =>
        \A k \in 1..Len(beamInfo) : \A i \in 1..NDates(survey_clean) :
            Scenario2At(beamInfo[k], i, <<100, 1>>, <<99, 1>>) =>
                /\ beamDiff.v[beamInfo[k].beamName][i] = <<-12, 1>>
                /\ beamSlope.v[beamInfo[k].beamName][i] = <<-6, 5>>

\* C7: the differential is the elevation of the west/south end minus that of
\* the east/north end: a pair of length 10 ft with elevations 100.0 (MP_W_S)
\* and 99.0 (MP_E_N) has differential +12 in and slope +1.2 in/ft, and with
\* 99.0 (MP_W_S) and 100.0 (MP_E_N) it has -12 in and -1.2 in/ft.
C7_DifferentialIsWestSouthMinusEastNorth ==
    pc = "differenced" =>
        \A k \in 1..Len(beamInfo) : \A i \in 1..NDates(survey_clean) :
            /\ Scenario2At(beamInfo[k], i, <<100, 1>>, <<99, 1>>) =>
                  /\ beamDiff.v[beamInfo[k].beamName][i] = <<12, 1>>
                  /\ beamSlope.v[beamInfo[k].beamName][i] = <<6, 5>>
            /\ Scenario2At(beamInfo[k], i, <<99, 1>>, <<100, 1>>) =>
                  /\ beamDiff.v[beamInfo[k].beamName][i] = <<-12, 1>>
                  /\ beamSlope.v[beamInfo[k].beamName][i] = <<-6, 5>>

C7_Witness ==
    /\ pc = "differenced"
    /\ Scenario2At(beamInfo[1], 1, <<100, 1>>, <<99, 1>>)
    /\ Scenario2At(beamInfo[1], 2, <<99, 1>>, <<100, 1>>)

\* the monitor points a beam pair names that the survey table does not have
UnknownEnds(b) ==
    LET long == beamLength_long(beamInfo)
    IN  {long[i].MONITOR_POINT : i \in {j \in 1..Len(long) : long[j].beamName = b}}
            \ Rows(survey_clean)

\* the reference file without the pair b: its row keeps the position of the
\* monitor point only
WithoutBeam(info, b) ==
    [i \in 1..Len(info) |->
        IF info[i].beamName # b THEN info[i]
        ELSE [info[i] EXCEPT !.MP_E_N = NoLabel, !.beamName = NoLabel,
                             !.beamLength = NaN, !.beamX = NaN, !.beamY = NaN,
                             !.beamDir = NoLabel]]

\* table t with a row for point p that has no value on any date
Unsurveyed(t, p) ==
    [dates |-> t.dates,
     v     |-> [q \in Rows(t) \cup {p} |->
                   IF q = p THEN [i \in 1..NDates(t) |-> NaN] ELSE t.v[q]]]

\* what calc_differental_settlement hands to its caller about the lugs
LugOutputs == <<raised, beamDiff, beamSlope, beamDiffProj, beamSlopeProj>>

\* the unknown point p is reported: the caller can tell it from a point of
\* the survey table that was never surveyed
Surfaced(p) ==
    LugOutputs #
        <<"none",
          calc_beamDiff(beamInfo, Unsurveyed(survey_clean, p)),
          calc_beamSlope(beamInfo, Unsurveyed(survey_clean, p)),
          calc_beamDiffProj(beamInfo, Unsurveyed(settlementProj_trans, p)),
          calc_beamSlopeProj(beamInfo, Unsurveyed(settlementProj_trans, p))>>

\* C17 as stated: a beam pair that names a monitor point absent from the
\* survey table has a missing differential and slope on every date, the other
\* pairs are what they are without it, and the unknown reference is reported
\* to the caller.
C17_AsStated ==
    pc = "differenced" =>
        \A b \in BeamNames(beamLength_long(beamInfo)) : \A p \in UnknownEnds(b) :
            /\ AllMissing(beamDiff.v[b]) /\ AllMissing(beamSlope.v[b])
            /\ AllMissing(beamDiffProj.v[b]) /\ AllMissing(beamSlopeProj.v[b])
            /\ \A c \in BeamNames(beamLength_long(beamInfo)) \ {b} :
                  /\ beamDiff.v[c] =
                         calc_beamDiff(WithoutBeam(beamInfo, b), survey_clean).v[c]
                  /\ beamSlope.v[c] =
                         calc_beamSlope(WithoutBeam(beamInfo, b), survey_clean).v[c]
            /\ Surfaced(p)

\* the rows groupby(['beamName']).diff().mul(12) makes for pair b from
\* table t, before the index is de-duplicated: one per end of the pair
Occurrences(t, b) ==
    LET g == GroupRows(beamLength_long(beamInfo), b)
    IN  [j \in 1..Len(g) |->
            [i \in 1..NDates(t) |->
                IF j = 1 THEN NaN
                ELSE fmul(fsub(JoinRow(t, g[j].MONITOR_POINT)[i],
                               JoinRow(t, g[j - 1].MONITOR_POINT)[i]), Q(12, 1))]]

\* the differential tables, each with the table it is made from
Differentials ==
    IF pc # "differenced" THEN {}
    ELSE {<<beamDiff, survey_clean>>, <<beamDiffProj, settlementProj_trans>>,
          <<floorDiff, DropEmptyDates(Add(survey_clean, truss_clean))>>,
          <<gradeBeamDiff, gradeBeamElev>>}

\* the slope tables, each with its differential table
Slopes ==
    IF pc # "differenced" THEN {}
    ELSE {<<beamSlope, beamDiff>>, <<beamSlopeProj, beamDiffProj>>,
          <<floorSlope, floorDiff>>}

\* C18: every differential and slope table has exactly one row for each
\* beam pair, with one value per survey date; of the several rows the join
\* of the reference table makes for a pair, the last is the one kept.
C18_OneRowPerPairLastKept ==
    LET pairs == BeamNames(beamLength_long(beamInfo))
    IN  /\ \A d \in Differentials :
              /\ Rows(d[1]) = pairs
              /\ \A b \in pairs :
                    /\ Len(d[1].v[b]) = NDates(d[2])
                    /\ Len(Occurrences(d[2], b)) > 1
                    /\ d[1].v[b] = Occurrences(d[2], b)[Len(Occurrences(d[2], b))]
        /\ \A f \in {<<floorDiffElev,
                       JoinBoth(beamLength_long(beamInfo), floorElevPlot,
                                DropFirstDate(elevFloorProj))>>,
                     <<floorDiffProj, elevFloorProj>>} :
              pc = "differenced" =>
                  /\ Rows(f[1]) = pairs
                  /\ \A b \in pairs :
                        /\ Len(f[1].v[b]) = NDates(f[2])
                        /\ \A i \in 1..NDates(f[2]) :
                              f[1].v[b][i] =
                                  fabs(Occurrences(f[2], b)
                                           [Len(Occurrences(f[2], b))][i])
        /\ \A s \in Slopes :
              /\ Rows(s[1]) = pairs
              /\ \A b \in pairs : Len(s[1].v[b]) = NDates(s[2])

\* a pair with a differential on a date: the first of its two rows is the
\* empty row of diff(), the last carries the value
C18_Witness ==
    /\ pc = "differenced"
    /\ Len(Occurrences(survey_clean, "A1")) = 2
    /\ AllMissing(Occurrences(survey_clean, "A1")[1])
    /\ IsNum(beamDiff.v["A1"][1])
    /\ beamDiff.v["A1"][1] # Q(0, 1)
    /\ IsNum(floorDiffProj.v["A2"][1])

----------------------------------------------------------------------------
(* Properties of the forecast engine.                                      *)

\* the forecasts made so far, each with the table it was made from
Forecasts ==
    (IF pc \in {"forecast_settlement", "forecast_elevation"}
     THEN {<<settlement, settlementProj>>} ELSE {})
    \cup (IF pc = "forecast_elevation" THEN {<<elevation, elevProj>>} ELSE {})

\* the trailing window of a forecast: the last nsurvey surveys but 2022-01-07
TrailingWindow(t) == Window(Drop(t, {EXCLUDED_2022}), nsurvey)

ValidCount(s) == Cardinality({i \in 1..Len(s) : IsNum(s[i])})

\* the last value of a column that is not missing
LastObservation(s) ==
    s[CHOOSE i \in 1..Len(s) : IsNum(s[i]) /\ \A j \in (i + 1)..Len(s) : ~IsNum(s[j])]

\* C5 as stated: for every column with at least 2 valid readings in the
\* trailing window, the forecast at the final date of the window equals the
\* last real observation of that column exactly.
C5_AsStated ==
    \A f \in Forecasts :
        \A p \in Rows(f[1]) :
            ValidCount(TrailingWindow(f[1]).v[p]) >= 2
            => f[2].v[p][1] = LastObservation(TrailingWindow(f[1]).v[p])

\* the textbook least-squares slope of y against the days since the first
\* survey of the window: (n Sxy - Sx Sy) / (n Sxx - Sx Sx)
OLS(days, y) ==
    LET n   == Q(Len(days), 1)
        x   == [i \in 1..Len(days) |-> Q(days[i] - days[1], 1)]
        Sx  == SumSeq(x)
        Sy  == SumSeq(y)
        Sxx == SumSeq([i \in 1..Len(x) |-> fmul(x[i], x[i])])
        Sxy == SumSeq([i \in 1..Len(x) |-> fmul(x[i], y[i])])
    IN  fdiv(fsub(fmul(n, Sxy), fmul(Sx, Sy)), fsub(fmul(n, Sxx), fmul(Sx, Sx)))

WindowDays(w) == [i \in 1..NDates(w) |-> toordinal(w.dates[i])]

\* the window of scenario 3: surveys 100 days apart reading 10.0 and 11.0,
\* the second on the January 1 that the first forecast date follows by 365 days
Scenario3At(t, p) ==
    /\ nsurvey = 2
    /\ TrailingWindow(t).dates = <<<<2018, 9, 23>>, <<2019, 1, 1>>>>
    /\ TrailingWindow(t).v[p] = <<Q(10, 1), Q(11, 1)>>

\* C6: every forecast value is the last observed value of the window plus the
\* least-squares slope of value against ordinal day over the window times the
\* days elapsed since the last survey of the window (to 3 decimals); two
\* surveys 100 days apart reading 10.0 and 11.0 have slope 0.01 per day and
\* project to 14.65 at 365 days after the second.
C6_ForecastIsSlopeExtrapolationFromLast ==
    \A f \in Forecasts :
        LET w == TrailingWindow(f[1])
        IN  \A p \in Rows(f[1]) :
                /\ \A k \in 1..NDates(f[2]) :
                       f[2].v[p][k] =
                           fround(fadd(w.v[p][NDates(w)],
                                       fmul(OLS(WindowDays(w), w.v[p]),
                                            Q(toordinal(f[2].dates[k])
                                              - toordinal(w.dates[NDates(w)]), 1))), 3)
                /\ Scenario3At(f[1], p)
                   => /\ OLS(WindowDays(w), w.v[p]) = Q(1, 100)
                      /\ toordinal(f[2].dates[2]) - toordinal(w.dates[1]) = 465
                      /\ f[2].v[p][2] = Q(1465, 100)

C6_Witness ==
    /\ pc = "forecast_elevation"
    /\ Scenario3At(elevation, "A1-1")
    /\ elevProj.dates[2] = <<2020, 1, 1>>
    /\ elevProj.v["A1-1"] = <<Q(11, 1), Q(1465, 100)>>

\* the tables a forecast has been asked for so far, returned or not
ForecastInputs ==
    (IF pc \in {"forecast_settlement", "forecast_elevation", "aborted"}
     THEN {settlement} ELSE {})
    \cup (IF pc = "forecast_elevation"
             \/ (pc = "aborted" /\ settlementProj # EmptyTable)
          THEN {elevation} ELSE {})

\* the number of surveys left after 2022-01-07 is dropped
Available(t) == NDates(Drop(t, {EXCLUDED_2022}))

\* C13 as stated: when nsurvey is larger than the number of non-excluded
\* surveys, both forecasts fit on all the available rows and return a
\* forecast without raising.
C13_AsStated ==
    \A t \in ForecastInputs :
        (HasColumn(t, EXCLUDED_2022) /\ nsurvey > Available(t)) =>
            /\ pc # "aborted"
            /\ \A f \in Forecasts :
                  f[1] = t => f[2] = Forecast(t, Available(t), nyears)

\* C14: a column with fewer than 2 non-missing values in the forecast window
\* has a missing forecast at every output date; the call raises nothing when
\* the window fits the table, and the forecast of every other column is what
\* it is without that column.
C14_UnfittableColumnIsMissing ==
    \A t \in ForecastInputs :
        \A p \in Rows(t) :
            ValidCount(TrailingWindow(t).v[p]) < 2 =>
                /\ (HasColumn(t, EXCLUDED_2022) /\ nsurvey <= Available(t))
                       => pc # "aborted"
                /\ ForecastRaises(t, nsurvey)
                       = ForecastRaises(WithoutPoint(t, p), nsurvey)
                /\ \A f \in Forecasts :
                      f[1] = t =>
                          /\ AllMissing(f[2].v[p])
                          /\ Len(f[2].v[p]) = nyears + 1
                          /\ \A q \in Rows(t) \ {p} :
                                f[2].v[q] =
                                    Forecast(WithoutPoint(t, p), nsurvey, nyears).v[q]

\* one valid reading, the last of a window of 3, beside a fitted column
C14_Witness ==
    /\ pc = "forecast_elevation"
    /\ nsurvey = 3
    /\ TrailingWindow(elevation).v["A1-1"] = <<NaN, NaN, Q(10, 1)>>
    /\ AllMissing(elevProj.v["A1-1"])
    /\ \A k \in 1..NDates(elevProj) : IsNum(elevProj.v["B1-1"][k])

\* January 1 of the `years` years that follow year y
YearStarts(y, years) == [k \in 1..years |-> <<y + k, 1, 1>>]

\* C19 as stated: the forecast table is indexed by the dates of the trailing
\* window followed by exactly nyears dates, January 1 of consecutive years
\* from the year after the last survey of the window.
C19_AsStated ==
    \A f \in Forecasts :
        LET w == TrailingWindow(f[1])
        IN  f[2].dates = w.dates \o YearStarts(year(w.dates[NDates(w)]), nyears)

\* C19: the forecast table is indexed by the final date of the trailing
\* window alone, followed by exactly nyears dates, January 1 of consecutive
\* years from the year after that date, the last survey other than
\* 2022-01-07; the transposed settlement forecast keeps the nyears dates only.
C19_ForecastIndexIsLastSurveyThenYearStarts ==
    \A f \in Forecasts :
        LET w    == TrailingWindow(f[1])
            last == w.dates[NDates(w)]
        IN  /\ f[2].dates = <<last>> \o YearStarts(year(last), nyears)
            /\ NDates(f[2]) = nyears + 1
            /\ f[1] = settlement =>
                  settlementProj_trans.dates = YearStarts(year(last), nyears)

\* a window of 3 surveys ending on 2023-01-05 and a horizon of 2 years
C19_Witness ==
    /\ pc = "forecast_elevation"
    /\ nsurvey = 3 /\ nyears = 2
    /\ NDates(TrailingWindow(settlement)) = 3
    /\ settlementProj.dates = <<<<2023, 1, 5>>, <<2024, 1, 1>>, <<2025, 1, 1>>>>
    /\ settlementProj_trans.dates = <<<<2024, 1, 1>>, <<2025, 1, 1>>>>
    /\ elevProj.dates = settlementProj.dates

\* the n most recent survey dates of a table other than 2022-01-07
RecentRetained(t, n) ==
    LET keep == SelectSeq(t.dates, LAMBDA d : d # EXCLUDED_2022)
    IN  SubSeq(keep, Len(keep) - n + 1, Len(keep))

\* C28: 2022-01-07 is removed before the trailing window is selected: the
\* fit uses exactly the nsurvey most recent surveys other than 2022-01-07,
\* the excluded survey takes no slot of the window, and the forecast starts
\* from the reading of the last survey that is not excluded.
C28_ExcludedSurveyTakesNoWindowSlot ==
    \A f \in Forecasts :
        LET days == RecentRetained(f[1], nsurvey)
            ords == [i \in 1..Len(days) |-> toordinal(days[i])]
        IN  /\ Len(days) = nsurvey
            /\ EXCLUDED_2022 \notin DateSet(days)
            /\ TrailingWindow(f[1]).dates = days
            /\ f[2].dates[1] = days[nsurvey]
            /\ \A p \in Rows(f[1]) :
                  LET y == [i \in 1..nsurvey |-> At(f[1], p, days[i])]
                  IN  \A k \in 1..NDates(f[2]) :
                          f[2].v[p][k] =
                              fround(fadd(y[nsurvey],
                                          fmul(OLS(ords, y),
                                               Q(toordinal(f[2].dates[k]) - ords[nsurvey],
                                                 1))), 3)

\* 2022-01-07 is the last survey but one and would be in a window of three
C28_Witness ==
    /\ pc = "forecast_elevation"
    /\ nsurvey = 3
    /\ elevation.dates =
           <<<<2018, 9, 23>>, <<2019, 1, 1>>, <<2022, 1, 7>>, <<2023, 1, 5>>>>
    /\ elevation.v["A1-1"] = <<Q(10, 1), Q(11, 1), Q(1, 16), Q(11, 1)>>
    /\ elevProj.dates[1] = <<2023, 1, 5>>
    /\ elevProj.v["A1-1"][1] = Q(11, 1)
    /\ IsNum(elevProj.v["A1-1"][2])

\* the dates of a forecast after its first, the last survey of the window
FutureDates(proj) == Tail(proj.dates)

\* C29 as stated: every future date of a forecast is strictly later than
\* every survey date of the table the forecast is made from, 2022-01-07
\* included, and the dates of the forecast are strictly increasing.
C29_AsStated ==
    \A f \in Forecasts :
        /\ \A k \in 1..Len(FutureDates(f[2])) : \A i \in 1..NDates(f[1]) :
              toordinal(f[1].dates[i]) < toordinal(FutureDates(f[2])[k])
        /\ \A k \in 2..NDates(f[2]) :
              toordinal(f[2].dates[k - 1]) < toordinal(f[2].dates[k])

\* the future dates are later than every survey that the fit does not
\* exclude, and the dates of the forecast are strictly increasing
FutureDatesFollowRetainedSurveys ==
    \A f \in Forecasts :
        /\ \A k \in 1..Len(FutureDates(f[2])) : \A i \in 1..NDates(f[1]) :
              f[1].dates[i] # EXCLUDED_2022 =>
                  toordinal(f[1].dates[i]) < toordinal(FutureDates(f[2])[k])
        /\ \A k \in 2..NDates(f[2]) :
              toordinal(f[2].dates[k - 1]) < toordinal(f[2].dates[k])

----------------------------------------------------------------------------
(* Properties of the plane-fit engine.                                     *)

\* the plane-fit inputs of a run, each with the residual and slope tables made
\* from it
PlaneFits ==
    IF pc # "fitted" THEN {}
    ELSE {<<floorElevPlot, error_fitFloor, slopes_fitFloor>>,
          <<gradeBeamElevPlot, error_fitGradeBeam, slopes_fitGradeBeam>>}

\* the coefficients (a, b, c) fitted to a pod on the k-th date of a table
Coefficients(plot, pod, k) ==
    LET fit == plane_fit(solver(tmp_A(beamInfo, pod), CHOOSE G \in SingularInverses : TRUE),
                         tmp_b(beamInfo, plot, pod, k))
    IN  <<fit[1][1], fit[2][1], fit[3][1]>>

\* the pod has 4 points and on the k-th date each lies on z = 2x + 3y + 1
Scenario4At(plot, pod, k) ==
    /\ Len(PodRows(beamInfo, pod)) = 4
    /\ \A i \in 1..4 :
          LET r == PodRows(beamInfo, pod)[i]
          IN  plot.v[r.MP_W_S][k] =
                  fadd(fadd(fmul(Q(2, 1), r.mpX), fmul(Q(3, 1), r.mpY)), Q(1, 1))

\* C9: a pod of 4 points lying exactly on z = 2x + 3y + 1 is fitted with the
\* coefficients (2, 3, 1), and the residual of each of its points is 0.
C9_CoplanarPointsRecoverPlane ==
    \A f \in PlaneFits : \A i \in 1..Len(pods) : \A k \in 1..NDates(f[1]) :
        Scenario4At(f[1], pods[i], k)
        => /\ Coefficients(f[1], pods[i], k) = <<Q(2, 1), Q(3, 1), Q(1, 1)>>
           /\ f[1].dates[k] # EXCLUDED_2022
              => /\ \A p \in PodPoints(beamInfo, pods[i]) :
                        At(f[2], p, f[1].dates[k]) = Q(0, 1)
                 /\ \E n \in 1..Len(f[3]) :
                        /\ f[3][n].Pod = pods[i]
                        /\ f[3][n].Survey_date = f[1].dates[k]
                        /\ f[3][n].X = Q(200, 1)
                        /\ f[3][n].Y = Q(300, 1)

C9_Witness ==
    /\ pc = "fitted"
    /\ Scenario4At(floorElevPlot, "A", 1)
    /\ floorElevPlot.dates[1] # EXCLUDED_2022
    /\ \A p \in PodPoints(beamInfo, "A") : error_fitFloor.v[p][1] = Q(0, 1)
    /\ \E p \in PodPoints(beamInfo, "A") : error_meanFloor.v[p][1] # Q(0, 1)

\* the fit of a pod on a date succeeded: the points are not in line and none
\* lacks its elevation
FitSucceeded(plot, pod, k) ==
    /\ ~Singular(beamInfo, pod)
    /\ \A p \in PodPoints(beamInfo, pod) : IsNum(plot.v[p][k])

ResidualSum(errors, pod, d) ==
    SumSeq([i \in 1..Len(PodRows(beamInfo, pod)) |->
               At(errors, PodRows(beamInfo, pod)[i].MP_W_S, d)])

\* C10: for every pod and survey date with a successful plane fit, the
\* fitted-plane residuals of the points of the pod sum to 0.
C10_ResidualsSumToZero ==
    \A f \in PlaneFits : \A i \in 1..Len(pods) : \A k \in 1..NDates(f[1]) :
        FitSucceeded(f[1], pods[i], k) /\ f[1].dates[k] # EXCLUDED_2022
        => ResidualSum(f[2], pods[i], f[1].dates[k]) = Q(0, 1)

C10_Witness ==
    /\ pc = "fitted"
    /\ FitSucceeded(floorElevPlot, "A", 1)
    /\ floorElevPlot.dates[1] # EXCLUDED_2022
    /\ \E p \in PodPoints(beamInfo, "A") : error_fitFloor.v[p][1] # Q(0, 1)
    /\ ResidualSum(error_fitFloor, "A", floorElevPlot.dates[1]) = Q(0, 1)

\* the plane-fit inputs of a call, returned or not, each with its outputs
PlaneCalls ==
    IF pc \notin {"fitted", "aborted"} THEN {}
    ELSE {<<floorElevPlot, error_fitFloor, slopes_fitFloor>>,
          <<gradeBeamElevPlot, error_fitGradeBeam, slopes_fitGradeBeam>>}

\* fewer than 3 points of the pod have an elevation on the k-th date, or the
\* points of the pod are in line
Degenerate(plot, pod, k) ==
    \/ Singular(beamInfo, pod)
    \/ Cardinality({p \in PodPoints(beamInfo, pod) : IsNum(plot.v[p][k])}) < 3

SlopeRows(slopes, pod, d) ==
    {n \in 1..Len(slopes) : slopes[n].Pod = pod /\ slopes[n].Survey_date = d}

\* C15 as stated: when a pod has fewer than 3 non-collinear valid points on a
\* survey date, calc_plane_error raises nothing and leaves the fit of that pod
\* and date out of its output, and the fits of the other pods and dates are
\* produced.
C15_AsStated ==
    \A f \in PlaneCalls :
        /\ (\E i \in 1..Len(pods) : \E k \in 1..NDates(f[1]) :
               Degenerate(f[1], pods[i], k)) => pc # "aborted"
        /\ pc = "fitted" =>
              \A i \in 1..Len(pods) : \A k \in 1..NDates(f[1]) :
                  f[1].dates[k] # EXCLUDED_2022 =>
                      IF Degenerate(f[1], pods[i], k)
                      THEN /\ SlopeRows(f[3], pods[i], f[1].dates[k]) = {}
                           /\ \A p \in PodPoints(beamInfo, pods[i]) :
                                 IsNaN(At(f[2], p, f[1].dates[k]))
                      ELSE /\ \E n \in SlopeRows(f[3], pods[i], f[1].dates[k]) :
                                 IsNum(f[3][n].X) /\ IsNum(f[3][n].Y)
                           /\ \A p \in PodPoints(beamInfo, pods[i]) :
                                 IsNum(At(f[2], p, f[1].dates[k]))

\* every run of the plane-fit engine that returned: the table it read, its
\* mean-plane errors and its fitted-plane errors
PlaneErrors ==
    IF pc # "fitted" THEN {}
    ELSE {<<floorElevPlot, error_meanFloor, error_fitFloor>>,
          <<gradeBeamElevPlot, error_meanGradeBeam, error_fitGradeBeam>>}

\* the points of a pod without an elevation on the k-th date of a table
MissingAt(plot, pod, k) == {p \in PodPoints(beamInfo, pod) : IsNaN(plot.v[p][k])}

\* the table with an elevation x written over the cell of point p on the
\* k-th date
Filled(plot, p, k, x) == [plot EXCEPT !.v[p][k] = x]

FillValues == {Q(0, 1), Q(7, 2)}

\* the mean of the elevations a pod does have on the k-th date
ValidMean(plot, pod, k) ==
    LET col == PodColumn(beamInfo, plot, pod, k)
        n   == Cardinality({i \in 1..Len(col) : IsNum(col[i])})
    IN  fdiv(SumSeq([i \in 1..Len(col) |-> IF IsNum(col[i]) THEN col[i] ELSE Q(0, 1)]),
             Q(n, 1))

\* two tables hold the same cells outside the one pod on the one date
SameElsewhere(t1, t2, pod, d) ==
    \A p \in PlanePoints(beamInfo) : \A e \in Range(t1.dates) :
        (p \notin PodPoints(beamInfo, pod) \/ e # d) => At(t1, p, e) = At(t2, p, e)

\* the errors the engine would have returned had point p had the elevation x
\* on the k-th date are, outside the pod of p on that date, the ones it did
\* return
Unaffected(f, pod, p, k, x) ==
    LET plot == Filled(f[1], p, k, x)
        d    == f[1].dates[k]
    IN  /\ SameElsewhere(f[2], ErrorInches(error_mean(beamInfo, plot)), pod, d)
        /\ \E G \in SingularInverses :
              LET solvers == Tuple([i \in 1..Len(pods) |->
                                       solver(tmp_A(beamInfo, pods[i]), G)])
              IN  SameElsewhere(f[3],
                                ErrorInches(error_fit(beamInfo, plot,
                                                      plane_fits(beamInfo, plot, solvers))),
                                pod, d)

\* C30: in calc_plane_error a missing elevation of one point of a pod on a
\* survey date makes the fitted-plane error of every point of that pod on
\* that date missing; the mean-plane errors of the other points of the pod
\* are still their distance, in inches, from the mean of the elevations the
\* pod does have; and the errors of the other pods and of the other dates are
\* what they would be had the elevation been there.
C30_MissingReadingBlanksFitOfPodAndDate ==
    \A f \in PlaneErrors : \A i \in 1..Len(pods) : \A k \in 1..NDates(f[1]) :
        LET d == f[1].dates[k]
        IN  (d # EXCLUDED_2022 /\ MissingAt(f[1], pods[i], k) # {}) =>
               /\ \A p \in PodPoints(beamInfo, pods[i]) : IsNaN(At(f[3], p, d))
               /\ \A p \in PodPoints(beamInfo, pods[i]) :
                     IF p \in MissingAt(f[1], pods[i], k)
                     THEN IsNaN(At(f[2], p, d))
                     ELSE /\ IsNum(At(f[2], p, d))
                          /\ At(f[2], p, d) =
                                 fmul(fsub(f[1].v[p][k], ValidMean(f[1], pods[i], k)),
                                      Q(FT_TO_IN, 1))
               /\ \A p \in MissingAt(f[1], pods[i], k) : \A x \in FillValues :
                     Unaffected(f, pods[i], p, k, x)

\* the floor table lacks the elevation of exactly one point of pod A on a
\* survey date, the points of both pods span a plane, and the engine returned
C30_Witness ==
    /\ pc = "fitted"
    /\ ~Singular(beamInfo, pods[1])
    /\ ~Singular(beamInfo, pods[2])
    /\ \E k \in 1..NDates(floorElevPlot) :
          /\ floorElevPlot.dates[k] # EXCLUDED_2022
          /\ Cardinality(MissingAt(floorElevPlot, pods[1], k)) = 1
          /\ \E p \in PodPoints(beamInfo, pods[1]) :
                IsNum(At(error_meanFloor, p, floorElevPlot.dates[k]))
          /\ \E p \in PodPoints(beamInfo, pods[2]) :
                IsNum(At(error_fitFloor, p, floorElevPlot.dates[k]))

----------------------------------------------------------------------------
(* Properties of the direction and tier tables.                            *)

\* the angles and tier colours that real differentials and slopes get
RealAngles == {Q(0, 1), Q(180, 1), Q(-90, 1), Q(90, 1)}

DiffTiers == {"black", "orange", "red"}

SlopeTiers == {"black", "gold", "orange", "red"}

SlopeProjTiers == {"green", "teal", "blue", "purple"}

\* the cell of pair b on the i-th date of a style table is marked missing
MarkedMissing(style, b, i, real) ==
    b \in Rows(style) => style.v[b][i] \notin real

\* C20 as stated: for every beam pair and date whose differential or slope
\* is missing, the direction angle and the tier of that pair and date are
\* marked missing too, and are not the angle or tier of a real value.
C20_AsStated ==
    pc = "floor_styled" =>
        /\ \A b \in Rows(beamDiff) : \A i \in 1..NDates(beamDiff) :
              IsNaN(beamDiff.v[b][i]) =>
                  /\ MarkedMissing(beamDir, b, i, RealAngles)
                  /\ MarkedMissing(beamDiffColor, b, i, DiffTiers)
        /\ \A b \in Rows(floorDiff) : \A i \in 1..NDates(floorDiff) :
              IsNaN(floorDiff.v[b][i]) =>
                  /\ MarkedMissing(floorDir, b, i, RealAngles)
                  /\ MarkedMissing(floorDiffColor, b, i, DiffTiers)
        /\ \A b \in Rows(gradeBeamDiff) : \A i \in 1..NDates(gradeBeamDiff) :
              IsNaN(gradeBeamDiff.v[b][i]) =>
                  MarkedMissing(gradeBeamDiffColor, b, i, DiffTiers)
        /\ \A b \in Rows(beamSlope) : \A i \in 1..NDates(beamSlope) :
              IsNaN(beamSlope.v[b][i]) =>
                  MarkedMissing(beamSlopeColor, b, i, SlopeTiers)
        /\ \A b \in Rows(floorSlope) : \A i \in 1..NDates(floorSlope) :
              IsNaN(floorSlope.v[b][i]) =>
                  MarkedMissing(floorSlopeColor, b, i, SlopeTiers)
        /\ \A b \in Rows(beamSlopeProj) : \A i \in 1..NDates(beamSlopeProj) :
              IsNaN(beamSlopeProj.v[b][i]) =>
                  MarkedMissing(beamSlopeProjColor, b, i, SlopeProjTiers)

\* the severity tier, 1 to 4, of the magnitude of a slope that is not missing
SlopeTier(s) ==
    IF flt(fabs(s), Q(1, 32)) THEN 1
    ELSE IF flt(fabs(s), Q(1, 16)) THEN 2
    ELSE IF flt(fabs(s), Q(1, 8)) THEN 3
    ELSE 4

\* the colours of the four tiers, lowest first
SlopeTierColours == <<"black", "gold", "orange", "red">>

SlopeProjTierColours == <<"green", "teal", "blue", "purple">>

\* every cell of a colour table is the colour of the tier of the slope's magnitude
ColouredByMagnitude(colour, slope, colours) ==
    \A b \in Rows(slope) : \A i \in 1..NDates(slope) :
        ~IsNaN(slope.v[b][i]) => colour.v[b][i] = colours[SlopeTier(slope.v[b][i])]

\* C23 as stated: the tier of every non-missing slope follows from the
\* magnitude of that slope alone, |s| < 1/32, 1/32 <= |s| < 1/16,
\* 1/16 <= |s| < 1/8 and |s| >= 1/8 being four distinct tiers, whatever
\* the length or the differential of the pair.
C23_AsStated ==
    /\ pc \in {"beam_styled", "floor_styled"} =>
          /\ ColouredByMagnitude(beamSlopeColor, beamSlope, SlopeTierColours)
          /\ ColouredByMagnitude(beamSlopeProjColor, beamSlopeProj, SlopeProjTierColours)
    /\ pc = "floor_styled" =>
          ColouredByMagnitude(floorSlopeColor, floorSlope, SlopeTierColours)

\* the tiers of the floor slope and of the projected slope alone
FloorAndProjectedSlopeColouredByMagnitude ==
    /\ pc \in {"beam_styled", "floor_styled"} =>
          ColouredByMagnitude(beamSlopeProjColor, beamSlopeProj, SlopeProjTierColours)
    /\ pc = "floor_styled" =>
          ColouredByMagnitude(floorSlopeColor, floorSlope, SlopeTierColours)

\* the angle of a differential that is not missing, from its sign and the
\* orientation label of the pair
ExpectedAngle(d, dir) ==
    LET base == IF flt(d, Q(0, 1)) THEN 180 ELSE 0
    IN  IF dir = "h" THEN Q(base, 1) ELSE Q(base - 90, 1)

\* every labelled pair of diff has a row of angles, and the angle at every
\* date with a differential is the expected one
AnglesFollowSign(dir, diff) ==
    \A b \in Rows(diff) :
        beamDirLabels(beamInfo, b) # NoLabel =>
            /\ b \in Rows(dir)
            /\ \A i \in 1..NDates(diff) :
                  ~IsNaN(diff.v[b][i]) =>
                      /\ dir.v[b][i] = ExpectedAngle(diff.v[b][i], beamDirLabels(beamInfo, b))
                      /\ dir.v[b][i] \in RealAngles

----------------------------------------------------------------------------
(* Properties of the Compute Settlement handler.                           *)

\* a table that an engine has returned in this run
Computed(t) == t # EmptyTable

SettlementDone ==
    Computed(settlement) /\ Computed(settlement_delta) /\ Computed(settlement_rate)

ForecastDone == Computed(settlementProj) /\ Computed(elevProj)

\* the floor differentials and slopes of calc_plan_dataframe
FloorDifferentialDone == Computed(floorDiff) /\ Computed(floorSlope)

\* the lug differentials and slopes of calc_differental_settlement
LugDifferentialDone == Computed(beamDiff) /\ Computed(beamSlope)

PlaneFitDone == Computed(error_fitFloor) /\ Computed(error_fitGradeBeam)

EngineCalls ==
    {"loaded", "settled", "forecast_settlement", "forecast_elevation", "planned", "fitted"}

\* a table that exists before a step is the same table after it
Kept(before, after) == Computed(before) => after = before

\* a second call of an engine on the tables it was given returns the tables
\* that the run holds
Repeatable ==
    /\ Computed(settlement) =>
          /\ settlement = calc_cumulative(survey_clean)
          /\ gradeBeamElev = calc_gradeBeamElev(survey_clean, truss_clean, shim_clean)
          /\ settlement_delta = calc_delta(calc_cumulative(survey_clean))
          /\ settlement_rate = calc_rate(calc_delta(calc_cumulative(survey_clean)))
    /\ Computed(settlementProj) =>
          /\ settlementProj = Forecast(settlement, nsurvey, nyears)
          /\ settlementProj_trans = DropFirstDate(Forecast(settlement, nsurvey, nyears))
    /\ Computed(elevProj) =>
          /\ elevProj = Forecast(elevation, nsurvey, nyears)
          /\ elevFloorProj = calc_elevFloorProj(Forecast(elevation, nsurvey, nyears),
                                                truss_clean)
    /\ Computed(floorDiff) =>
          /\ floorElevPlot = calc_floorElevPlot(beamInfo, survey_clean, truss_clean)
          /\ floorDiff = calc_floorDiff(beamInfo, survey_clean, truss_clean)
          /\ floorSlope = calc_floorSlope(beamInfo, survey_clean, truss_clean)
    /\ Computed(error_meanFloor) =>
          /\ error_meanFloor = ErrorInches(error_mean(beamInfo, floorElevPlot))
          /\ error_meanGradeBeam = ErrorInches(error_mean(beamInfo, gradeBeamElevPlot))
    /\ Computed(beamDiff) =>
          /\ beamDiff = calc_beamDiff(beamInfo, survey_clean)
          /\ beamSlope = calc_beamSlope(beamInfo, survey_clean)
          /\ beamSlopeProj = calc_beamSlopeProj(beamInfo, settlementProj_trans)
          /\ floorDiffElev = calc_floorDiffElev(beamInfo, floorElevPlot, elevFloorProj)

\* a call of an engine leaves the inputs and the tables made before it as they were
EngineKeepsTables ==
    pc \in EngineCalls =>
        /\ UNCHANGED inputVars
        /\ Kept(elevation, elevation')
        /\ Kept(gradeBeamElev, gradeBeamElev')
        /\ Kept(gradeBeamElevPlot, gradeBeamElevPlot')
        /\ Kept(settlement, settlement')
        /\ Kept(settlement_delta, settlement_delta')
        /\ Kept(settlement_rate, settlement_rate')
        /\ Kept(settlementProj, settlementProj')
        /\ Kept(settlementProj_trans, settlementProj_trans')
        /\ Kept(elevProj, elevProj')
        /\ Kept(elevFloorProj, elevFloorProj')
        /\ Kept(elevGradeBeamProj, elevGradeBeamProj')
        /\ Kept(floorElevPlot, floorElevPlot')
        /\ Kept(floorDiff, floorDiff')
        /\ Kept(floorSlope, floorSlope')
        /\ Kept(gradeBeamDiff, gradeBeamDiff')
        /\ Kept(error_meanFloor, error_meanFloor')
        /\ Kept(error_fitFloor, error_fitFloor')
        /\ Kept(error_meanGradeBeam, error_meanGradeBeam')
        /\ Kept(error_fitGradeBeam, error_fitGradeBeam')

============================================================================
